---- MODULE Spec2Model ----
(***************************************************************************)
(* Model of the cursor-clip clipboard daemon (backend):                    *)
(*   src/src/backend/backend_state.rs      BackendState (history store and *)
(*                                         ownership record)               *)
(*   src/src/backend/wayland_clipboard.rs  start_monitoring, Drop and the  *)
(*                                         three Dispatch handlers         *)
(*   src/src/backend/ipc_server.rs         broadcast registry, handle_client*)
(*   src/src/shared/data_structures.rs     items, previews, messages,      *)
(*                                         type_from_preview               *)
(*                                                                         *)
(* Rust strings are sequences of Unicode code points, byte buffers are     *)
(* sequences of 0..255.  Option<T> is a sequence of length 0 or 1.         *)
(* ClipboardItem.timestamp (SystemTime::now) is not modelled.              *)
(* Every handler runs under the BackendState mutex from its first to its   *)
(* last statement, so each is one action; a handler's nested calls         *)
(* (process_all_data_formats -> add_clipboard_item -> ipc_server::send ->  *)
(* set_clipboard_by_id) are operators over a record W of everything a      *)
(* handler can touch.                                                      *)
(***************************************************************************)
EXTENDS Integers, Sequences, FiniteSets, TLC

\* ------------------------------------------------------------ bounds
\* successful inserts per behaviour (caps id_for_next_entry)
MaxInserts == 2
\* offers the compositor announces per behaviour
MaxOffers == 1
\* MIME announcements accepted into one offer's list
MaxMimes == 2
\* sources the daemon creates per behaviour
MaxSources == 2
\* IPC connections accepted per behaviour
MaxConns == 2
\* messages waiting in one connection's channel
MaxQueue == 2
\* request lines the connections read in one behaviour, all together
MaxRequests == 1

\* ------------------------------------------------- program constants
\* history.truncate(100)
HistoryCap == 100
\* s.chars().take(200)
PreviewChars == 200
\* content.len() < 256
FileMaxLen == 256
\* content.len() < 50
PasswordMaxLen == 50

\* --------------------------------------------------------- Option<T>
None == <<>>
Some(x) == <<x>>
IsSome(o) == Len(o) = 1
IsNone(o) == Len(o) = 0
Unwrap(o) == o[1]

\* ------------------------------------------------------------ strings
\* "image/png"
MIME_IMAGE_PNG == <<105, 109, 97, 103, 101, 47, 112, 110, 103>>
\* "text/plain;charset=utf-8"
MIME_TEXT_UTF8 == <<116, 101, 120, 116, 47, 112, 108, 97, 105, 110, 59, 99, 104, 97, 114, 115, 101, 116, 61, 117, 116, 102, 45, 56>>
\* "video/mp4"
MIME_VIDEO_MP4 == <<118, 105, 100, 101, 111, 47, 109, 112, 52>>
\* "video"
STR_VIDEO == <<118, 105, 100, 101, 111>>
\* "http://"
STR_HTTP == <<104, 116, 116, 112, 58, 47, 47>>
\* "https://"
STR_HTTPS == <<104, 116, 116, 112, 115, 58, 47, 47>>
\* "fn "
STR_FN == <<102, 110, 32>>
\* "impl "
STR_IMPL == <<105, 109, 112, 108, 32>>
\* "struct "
STR_STRUCT == <<115, 116, 114, 117, 99, 116, 32>>
\* " bytes>"
STR_BYTES_GT == <<32, 98, 121, 116, 101, 115, 62>>
\* "No clipboard item found with ID: "
STR_NOT_FOUND == <<78, 111, 32, 99, 108, 105, 112, 98, 111, 97, 114, 100, 32, 105, 116, 101, 109, 32, 102, 111, 117, 110, 100, 32, 119, 105, 116, 104, 32, 73, 68, 58, 32>>
\* "Wayland clipboard objects not available yet"
STR_NOT_AVAILABLE == <<87, 97, 121, 108, 97, 110, 100, 32, 99, 108, 105, 112, 98, 111, 97, 114, 100, 32, 111, 98, 106, 101, 99, 116, 115, 32, 110, 111, 116, 32, 97, 118, 97, 105, 108, 97, 98, 108, 101, 32, 121, 101, 116>>
\* "!@#$%^&*()-_=+[]{};:,.<>?/\|`~"
PASSWORD_SPECIALS == <<33, 64, 35, 36, 37, 94, 38, 42, 40, 41, 45, 95, 61, 43, 91, 93, 123, 125, 59, 58, 44, 46, 60, 62, 63, 47, 92, 124, 96, 126>>

\* str::starts_with
StartsWith(s, p) == Len(s) >= Len(p) /\ SubSeq(s, 1, Len(p)) = p
\* str::contains(&str)
Contains(s, p) == \E i \in 1..(Len(s) - Len(p) + 1) : SubSeq(s, i, i + Len(p) - 1) = p
\* str::contains(char)
ContainsChar(s, c) == \E i \in 1..Len(s) : s[i] = c
\* bytes one char takes in UTF-8
Utf8Width(c) == IF c < 128 THEN 1 ELSE IF c < 2048 THEN 2 ELSE IF c < 65536 THEN 3 ELSE 4
\* str::len: the length in bytes
RECURSIVE StrLen(_)
StrLen(s) == IF s = <<>> THEN 0 ELSE Utf8Width(s[1]) + StrLen(Tail(s))
\* s.chars().take(n).collect()
TakeChars(s, n) == SubSeq(s, 1, IF Len(s) < n THEN Len(s) ELSE n)
\* format!("{}", n) of an unsigned integer
RECURSIVE Decimal(_)
Decimal(n) == IF n < 10 THEN <<48 + n>> ELSE Decimal(n \div 10) \o <<48 + (n % 10)>>

\* std::str::from_utf8: Some(code points) or None when the bytes are not UTF-8
IsCont(b) == b >= 128 /\ b < 192
RECURSIVE FromUtf8(_)
FromUtf8(b) ==
    IF b = <<>> THEN Some(<<>>)
    ELSE LET b1 == b[1]
             n == IF b1 < 128 THEN 1
                  ELSE IF b1 >= 194 /\ b1 < 224 THEN 2
                  ELSE IF b1 >= 224 /\ b1 < 240 THEN 3
                  ELSE IF b1 >= 240 /\ b1 < 245 THEN 4
                  ELSE 0
         IN IF n = 0 \/ Len(b) < n THEN None
            ELSE IF \E i \in 2..n : ~IsCont(b[i]) THEN None
            ELSE LET cp == IF n = 1 THEN b1
                           ELSE IF n = 2 THEN (b1 - 192) * 64 + (b[2] - 128)
                           ELSE IF n = 3 THEN (b1 - 224) * 4096 + (b[2] - 128) * 64 + (b[3] - 128)
                           ELSE (b1 - 240) * 262144 + (b[2] - 128) * 4096 + (b[3] - 128) * 64 + (b[4] - 128)
                     ok == /\ n = 3 => (cp >= 2048 /\ ~(cp >= 55296 /\ cp < 57344))
                           /\ n = 4 => (cp >= 65536 /\ cp < 1114112)
                     rest == FromUtf8(SubSeq(b, n + 1, Len(b)))
                 IN IF ~ok \/ IsNone(rest) THEN None ELSE Some(<<cp>> \o Unwrap(rest))

\* ------------------------------------------- ClipboardContentType
\* ClipboardContentType::type_from_preview
type_from_preview(content) ==
    IF StartsWith(content, STR_HTTP) \/ StartsWith(content, STR_HTTPS) THEN "Url"
    ELSE IF Contains(content, STR_FN) \/ Contains(content, STR_IMPL) \/ Contains(content, STR_STRUCT) THEN "Code"
    ELSE IF ContainsChar(content, 47) /\ ~ContainsChar(content, 32) /\ StrLen(content) < FileMaxLen THEN "File"
    ELSE IF /\ content # <<>>
            /\ StrLen(content) < PasswordMaxLen
            /\ ~ContainsChar(content, 32)
            /\ \E i \in 1..Len(content) : ContainsChar(PASSWORD_SPECIALS, content[i])
         THEN "Password"
    ELSE "Text"

\* ------------------------------------------- IndexMap<String, Bytes>
\* an IndexMap is a sequence of <<key, value>> pairs with distinct keys
IndexMapKeys(m) == [i \in 1..Len(m) |-> m[i][1]]
\* IndexMap::get
IndexMapGet(m, k) ==
    IF \E i \in 1..Len(m) : m[i][1] = k
    THEN Some(m[CHOOSE i \in 1..Len(m) : m[i][1] = k][2])
    ELSE None
\* IndexMap::insert: a present key keeps its position and takes the new value
IndexMapInsert(m, k, v) ==
    IF \E i \in 1..Len(m) : m[i][1] = k
    THEN [i \in 1..Len(m) |-> IF m[i][1] = k THEN <<k, v>> ELSE m[i]]
    ELSE Append(m, <<k, v>>)

\* ------------------------------------------------------------ state
VARIABLES
    backend_state,  \* BackendState, the value behind Arc<Mutex<..>>
    push_senders,   \* PUSH_SENDERS: the registered senders, by connection
    conns,          \* per accepted connection: reader task, channel, writer task, socket
    objects,        \* the protocol objects the daemon was given or created, and
                    \* the compositor's end of the connection
    monitor_pc,     \* where WaylandClipboardMonitor::start_monitoring stands
    lock,           \* the context that holds the BackendState mutex, 0 for none
    inserts,        \* successful inserts so far (bounds the behaviour)
    issued,         \* the ids add_clipboard_item has returned so far, in order
    ran,            \* the handler that ran last
    last            \* what it was given, what it returned, the requests it issued

vars == <<backend_state, push_senders, conns, objects, monitor_pc, lock, inserts, issued, ran, last>>

\* Result<(), String>
Ok == [ok |-> TRUE, err |-> <<>>]
Err(msg) == [ok |-> FALSE, err |-> msg]

\* BackendState::new
BackendState_new ==
    [ history |-> <<>>,
      mime_type_offers |-> <<>>,  \* [o] = Some(list) iff offer o is a key
      id_for_next_entry |-> 1,
      data_control_manager |-> FALSE,
      data_control_device |-> FALSE,
      seat |-> FALSE,
      current_data_offer |-> None,
      current_source_object |-> None,
      current_source_entry_id |-> None,
      qh |-> FALSE,
      suppress_next_selection_read |-> FALSE,
      connection |-> FALSE,
      monitor_only |-> FALSE ]

\* impl From<&ClipboardItem> for ClipboardItemPreview
Preview(full) ==
    [ item_id |-> full.item_id,
      content_preview |-> full.content_preview,
      content_type |-> full.content_type ]

\* BackendMessage
MsgHistory(items) == [kind |-> "History", body |-> items]
MsgNewItem(item) == [kind |-> "NewItem", body |-> item]
MsgClipboardSet == [kind |-> "ClipboardSet", body |-> <<>>]
MsgHistoryCleared == [kind |-> "HistoryCleared", body |-> <<>>]
MsgError(message) == [kind |-> "Error", body |-> message]

\* a request the daemon writes to the compositor connection
Req(name, obj, arg) == [req |-> name, obj |-> obj, arg |-> arg]

\* everything a handler can touch: the locked BackendState, the broadcast
\* registry, the connections' channels, the protocol objects; wire collects
\* the protocol requests the handler has issued so far, ids the ids its
\* add_clipboard_item calls have returned
World ==
    [bs |-> backend_state, ps |-> push_senders, cn |-> conns, ob |-> objects,
     wire |-> <<>>, ids |-> <<>>]

RangeOf(s) == {s[i] : i \in DOMAIN s}

\* a reply that goes to every connection's channel
ChannelSend_to_all(cn, c, message) ==
    [d \in DOMAIN cn |-> IF cn[d].rx_alive THEN [cn[d] EXCEPT !.queue = Append(@, message)] ELSE cn[d]]

\* a send that puts the message in front of the waiting ones
ChannelSend_in_front(cn, c, message) ==
    IF cn[c].rx_alive THEN [cn EXCEPT ![c].queue = <<message>> \o @] ELSE cn

\* UnboundedSender::send: fails once the receiver is dropped
ChannelSend(cn, c, message) ==
    IF cn[c].rx_alive THEN [cn EXCEPT ![c].queue = Append(@, message)] ELSE cn

\* a broadcast that keeps the senders whose send failed
send_keeps_failed(w, message) ==
    [w EXCEPT
        !.cn = [c \in DOMAIN w.cn |->
                   IF c \in RangeOf(w.ps) /\ w.cn[c].rx_alive
                   THEN [w.cn[c] EXCEPT !.queue = Append(@, message)]
                   ELSE w.cn[c]]]

\* ipc_server::send: one copy to every registered sender, failed ones removed
send(w, message) ==
    [w EXCEPT
        !.cn = [c \in DOMAIN w.cn |->
                   IF c \in RangeOf(w.ps) /\ w.cn[c].rx_alive
                   THEN [w.cn[c] EXCEPT !.queue = Append(@, message)]
                   ELSE w.cn[c]],
        !.ps = SelectSeq(w.ps, LAMBDA c : w.cn[c].rx_alive)]

\* format!("<{mime_name} {len} bytes>")
Placeholder(mime_name, len) == <<60>> \o mime_name \o <<32>> \o Decimal(len) \o STR_BYTES_GT

\* add_clipboard_item's match on std::str::from_utf8(txt_bytes)
TextPreview(decoded, txt_bytes) ==
    IF IsSome(decoded)
    THEN TakeChars(Unwrap(decoded), PreviewChars)
    ELSE Placeholder(MIME_TEXT_UTF8, Len(txt_bytes))

\* add_clipboard_item's pair (preview, type_from_preview(&preview))
Inferred(preview) == [preview |-> preview, type |-> type_from_preview(preview)]

\* the preview and type add_clipboard_item chooses for a payload
PreviewAndType(mime_content) ==
    LET png == IndexMapGet(mime_content, MIME_IMAGE_PNG)
        txt == IndexMapGet(mime_content, MIME_TEXT_UTF8)
    IN IF IsSome(png)
       THEN [preview |-> Placeholder(MIME_IMAGE_PNG, Len(Unwrap(png))), type |-> "Image"]
       ELSE IF IsSome(txt)
       THEN Inferred(TextPreview(FromUtf8(Unwrap(txt)), Unwrap(txt)))
       ELSE Inferred(Placeholder(mime_content[1][1], Len(mime_content[1][2])))

\* a truncate that keeps the tail of the vector instead of its head
Truncate_keeps_tail(v, n) == IF Len(v) > n THEN SubSeq(v, Len(v) - n + 1, Len(v)) ELSE v

\* Vec::truncate
Truncate(v, n) == IF Len(v) > n THEN SubSeq(v, 1, n) ELSE v

\* the ClipboardItem add_clipboard_item builds
NewItem(item_id, pt, mime_content) ==
    [ item_id |-> item_id,
      content_type |-> pt.type,
      content_preview |-> pt.preview,
      mime_data |-> mime_content ]

\* a broadcast of the last item's preview
Announce_oldest(w) ==
    IF w.bs.history # <<>> THEN send(w, MsgNewItem(Preview(w.bs.history[Len(w.bs.history)]))) ELSE w

\* add_clipboard_item's broadcast of the first item's preview
Announce(w) ==
    IF w.bs.history # <<>> THEN send(w, MsgNewItem(Preview(w.bs.history[1]))) ELSE w

\* add_clipboard_item's Some(new_id)
Returned(w, new_id) == [w |-> [w EXCEPT !.ids = Append(@, new_id)], ret |-> Some(new_id)]

\* BackendState::add_clipboard_item past its early return: the item is
\* built, inserted at the front, the history cut to its capacity, the id
\* counter advanced and the item announced
InsertItem(w, mime_content) ==
    Returned(
        Announce([w EXCEPT
            !.bs.history = Truncate(<<NewItem(w.bs.id_for_next_entry, PreviewAndType(mime_content), mime_content)>> \o @,
                                    HistoryCap),
            !.bs.id_for_next_entry = @ + 1]),
        w.bs.id_for_next_entry)

\* an add_clipboard_item that takes the next id before it looks at the payload
add_clipboard_item_spends_id(w, mime_content) ==
    IF mime_content = <<>>
    THEN [w |-> [w EXCEPT !.bs.id_for_next_entry = @ + 1], ret |-> None]
    ELSE InsertItem(w, mime_content)

\* BackendState::add_clipboard_item; the result is [w, ret: Option<u64>]
add_clipboard_item(w, mime_content) ==
    IF mime_content = <<>> THEN [w |-> w, ret |-> None]
    ELSE InsertItem(w, mime_content)

\* a get_history that walks the history from its last position
get_history_oldest_first(bs) ==
    [i \in 1..Len(bs.history) |-> Preview(bs.history[Len(bs.history) + 1 - i])]

\* BackendState::get_history
get_history(bs) == [i \in 1..Len(bs.history) |-> Preview(bs.history[i])]

\* a get_item_by_id that falls back to the newest item
get_item_by_id_or_newest(bs, id) ==
    IF \E i \in 1..Len(bs.history) : bs.history[i].item_id = id
    THEN Some(CHOOSE it \in RangeOf(bs.history) : it.item_id = id)
    ELSE IF bs.history # <<>> THEN Some(bs.history[1]) ELSE None

\* BackendState::get_item_by_id
get_item_by_id(bs, id) ==
    IF \E i \in 1..Len(bs.history) : bs.history[i].item_id = id
    THEN LET first == CHOOSE i \in 1..Len(bs.history) :
                         /\ bs.history[i].item_id = id
                         /\ \A j \in 1..(i - 1) : bs.history[j].item_id # id
         IN Some(bs.history[first])
    ELSE None

\* a clear_history that keeps the newest item
clear_history_keeps_newest(bs) ==
    [bs EXCEPT !.history = IF @ = <<>> THEN <<>> ELSE <<@[1]>>]

\* a clear_history that also starts the ids over
clear_history_resets_ids(bs) == [bs EXCEPT !.history = <<>>, !.id_for_next_entry = 1]

\* BackendState::clear_history
clear_history(bs) == [bs EXCEPT !.history = <<>>]

\* a source that is dropped without the destroy request
DestroySource_forgotten(w, s) == w

\* Proxy::destroy on a source
DestroySource(w, s) ==
    [w EXCEPT !.ob.sources[s].destroyed = @ + 1,
              !.wire = Append(@, Req("source.destroy", s, <<>>))]

\* an offer that is dropped without the destroy request
DestroyOffer_forgotten(w, o) == w

\* Proxy::destroy on an offer
DestroyOffer(w, o) ==
    [w EXCEPT !.ob.offers[o].destroyed = @ + 1,
              !.wire = Append(@, Req("offer.destroy", o, <<>>))]

\* BackendState::set_clipboard_by_id; the result is [w, ret: Result<(), String>]
set_clipboard_by_id(w, entry_id, flush_ok) ==
    LET found == get_item_by_id(w.bs, entry_id)
    IN IF IsNone(found)
       THEN [w |-> w, ret |-> Err(STR_NOT_FOUND \o Decimal(entry_id))]
       ELSE IF ~(w.bs.data_control_manager /\ w.bs.data_control_device /\ w.bs.qh)
       THEN [w |-> w, ret |-> Err(STR_NOT_AVAILABLE)]
       ELSE LET item == Unwrap(found)
                w1 == IF IsSome(w.bs.current_source_object)
                      THEN [DestroySource(w, Unwrap(w.bs.current_source_object))
                               EXCEPT !.bs.current_source_object = None]
                      ELSE w
                source == Len(w1.ob.sources) + 1
                mimes == IndexMapKeys(item.mime_data)
                w2 == [w1 EXCEPT
                         !.ob.sources = Append(@, [destroyed |-> 0, cancelled |-> FALSE, entry |-> entry_id]),
                         !.wire = @ \o <<Req("create_data_source", source, <<>>)>>
                                    \o [i \in 1..Len(mimes) |-> Req("source.offer", source, mimes[i])]
                                    \o <<Req("set_selection", source, <<>>)>>
                                    \o (IF w1.bs.connection
                                        THEN <<Req(IF flush_ok THEN "flush" ELSE "flush failed", 0, <<>>)>>
                                        ELSE <<>>),
                         !.bs.current_source_object = Some(source),
                         !.bs.current_source_entry_id = Some(entry_id),
                         !.bs.suppress_next_selection_read = TRUE]
            IN [w |-> w2, ret |-> Ok]

\* ------------------------------------------------ reading an offer
\* what one MIME type's transfer can end in: create_pipes fails, read_to_end
\* fails, or read_to_end returns the bytes the owner wrote (possibly none)
PipeErr == [kind |-> "pipe_err", buf |-> <<>>]
ReadErr == [kind |-> "read_err", buf |-> <<>>]
ReadOk(buf) == [kind |-> "ok", buf |-> buf]
\* the bytes the owner of offer o holds: "o1", "o2", ...
OfferBytes(o) == <<111>> \o Decimal(o)
ReadOutcomes(o) == {PipeErr, ReadErr, ReadOk(<<>>), ReadOk(OfferBytes(o))}

\* a transfer loop that gives up at the first MIME type whose pipe cannot be
\* opened or whose read fails
RECURSIVE ReadFormats_stops_at_failure(_, _, _, _, _, _)
ReadFormats_stops_at_failure(w, data_offer, mime_types, outcome, i, mime_map) ==
    IF i > Len(mime_types) THEN [w |-> w, mime_map |-> mime_map]
    ELSE IF outcome[i].kind = "pipe_err" THEN [w |-> w, mime_map |-> mime_map]
    ELSE LET w1 == [w EXCEPT !.wire = @ \o <<Req("offer.receive", data_offer, mime_types[i]),
                                              Req("flush", 0, <<>>)>>]
         IN IF outcome[i].kind = "read_err" THEN [w |-> w1, mime_map |-> mime_map]
            ELSE ReadFormats_stops_at_failure(
                    w1, data_offer, mime_types, outcome, i + 1,
                    IF outcome[i].buf # <<>>
                    THEN IndexMapInsert(mime_map, mime_types[i], outcome[i].buf)
                    ELSE mime_map)

\* the loop of process_all_data_formats from the i-th MIME type on; the
\* result is [w, mime_map].  A flush that fails is logged and changes nothing;
\* only set_clipboard_by_id's flush keeps its outcome in the request log
RECURSIVE ReadFormats(_, _, _, _, _, _)
ReadFormats(w, data_offer, mime_types, outcome, i, mime_map) ==
    IF i > Len(mime_types) THEN [w |-> w, mime_map |-> mime_map]
    ELSE LET mime == mime_types[i]
             r == outcome[i]
         IN IF r.kind = "pipe_err"
            THEN ReadFormats(w, data_offer, mime_types, outcome, i + 1, mime_map)
            ELSE LET w1 == [w EXCEPT !.wire = @ \o <<Req("offer.receive", data_offer, mime),
                                                       Req("flush", 0, <<>>)>>]
                     map1 == IF r.kind = "ok" /\ r.buf # <<>>
                             THEN IndexMapInsert(mime_map, mime, r.buf)
                             ELSE mime_map
                 IN ReadFormats(w1, data_offer, mime_types, outcome, i + 1, map1)

\* a process_all_data_formats that stores the new item and never publishes it
Republish_never(added, flush_ok) == added.w

\* a process_all_data_formats that does not look at monitor_only
Republish_in_monitor_only(added, flush_ok) ==
    IF IsSome(added.ret) /\ ~added.w.bs.suppress_next_selection_read
    THEN set_clipboard_by_id(added.w, Unwrap(added.ret), flush_ok).w
    ELSE added.w

\* process_all_data_formats after its add_clipboard_item: the new item is
\* published unless the daemon only monitors or a read is suppressed
Republish(added, flush_ok) ==
    IF IsSome(added.ret)
       /\ ~added.w.bs.monitor_only
       /\ ~added.w.bs.suppress_next_selection_read
    THEN set_clipboard_by_id(added.w, Unwrap(added.ret), flush_ok).w
    ELSE added.w

\* process_all_data_formats after its loop
StoreFormats(rd, flush_ok) ==
    IF rd.mime_map = <<>> THEN rd.w
    ELSE Republish(add_clipboard_item(rd.w, rd.mime_map), flush_ok)

\* process_all_data_formats
process_all_data_formats(w, data_offer, mime_types, outcome, flush_ok) ==
    IF mime_types = <<>> THEN w
    ELSE StoreFormats(ReadFormats(w, data_offer, mime_types, outcome, 1, <<>>), flush_ok)

\* ------------------------------------------------------ the handlers
\* the MIME types a compositor announces in this model
AnnouncedMimes == {MIME_IMAGE_PNG, MIME_TEXT_UTF8, MIME_VIDEO_MP4}

\* Dispatch<ZwlrDataControlDeviceV1>::event, DataOffer { id }
OnDataOffer(w, id) ==
    [w EXCEPT !.bs.mime_type_offers[id] = Some(<<>>)]

\* an Offer handler that appends every MIME type
OnOffer_unfiltered(w, offer, mime_type) ==
    IF IsSome(w.bs.mime_type_offers[offer])
    THEN [w EXCEPT !.bs.mime_type_offers[offer] = Some(Append(Unwrap(@), mime_type))]
    ELSE w

\* Dispatch<ZwlrDataControlOfferV1>::event, Offer { mime_type }
OnOffer(w, offer, mime_type) ==
    IF IsSome(w.bs.mime_type_offers[offer])
    THEN IF ~StartsWith(mime_type, STR_VIDEO)
         THEN [w EXCEPT !.bs.mime_type_offers[offer] = Some(Append(Unwrap(@), mime_type))]
         ELSE w
    ELSE w

\* HashMap::clear
ClearOffers(t) == [o \in DOMAIN t |-> None]

\* a Selection handler without the branch on suppress_next_selection_read
OnSelection_unsuppressed(w, id, outcome, flush_ok) ==
    IF IsSome(id)
    THEN IF IsSome(w.bs.mime_type_offers[Unwrap(id)])
            /\ w.bs.current_data_offer # id
         THEN DestroyOffer(
                 [process_all_data_formats([w EXCEPT !.bs.current_data_offer = id], Unwrap(id),
                                           Unwrap(w.bs.mime_type_offers[Unwrap(id)]), outcome, flush_ok)
                     EXCEPT !.bs.mime_type_offers = ClearOffers(@)],
                 Unwrap(id))
         ELSE w
    ELSE [w EXCEPT !.bs.current_data_offer = None]

\* a Selection handler whose suppression is spent by the one event it
\* discards
OnSelection_suppress_once(w, id, outcome, flush_ok) ==
    IF IsSome(id)
    THEN IF IsSome(w.bs.mime_type_offers[Unwrap(id)])
         THEN IF w.bs.suppress_next_selection_read
              THEN DestroyOffer([w EXCEPT !.bs.current_data_offer = id,
                                          !.bs.suppress_next_selection_read = FALSE],
                                Unwrap(id))
              ELSE IF w.bs.current_data_offer # id
              THEN DestroyOffer(
                      [process_all_data_formats([w EXCEPT !.bs.current_data_offer = id], Unwrap(id),
                                                Unwrap(w.bs.mime_type_offers[Unwrap(id)]), outcome, flush_ok)
                          EXCEPT !.bs.mime_type_offers = ClearOffers(@)],
                      Unwrap(id))
              ELSE w
         ELSE w
    ELSE [w EXCEPT !.bs.current_data_offer = None]

\* Dispatch<ZwlrDataControlDeviceV1>::event, Selection { id }
OnSelection(w, id, outcome, flush_ok) ==
    IF IsSome(id)
    THEN LET offer_key == Unwrap(id)
             already_current == IsSome(w.bs.current_data_offer) /\ Unwrap(w.bs.current_data_offer) = offer_key
             entry == w.bs.mime_type_offers[offer_key]
         IN IF IsSome(entry)
            THEN IF w.bs.suppress_next_selection_read
                 THEN DestroyOffer([w EXCEPT !.bs.current_data_offer = Some(offer_key)], offer_key)
                 ELSE IF ~already_current
                 THEN LET w1 == [w EXCEPT !.bs.current_data_offer = Some(offer_key)]
                          w2 == process_all_data_formats(w1, offer_key, Unwrap(entry), outcome, flush_ok)
                          w3 == [w2 EXCEPT !.bs.mime_type_offers = ClearOffers(@)]
                      IN DestroyOffer(w3, offer_key)
                 ELSE w
            ELSE w
    ELSE [w EXCEPT !.bs.current_data_offer = None]

\* Dispatch<ZwlrDataControlSourceV1>::event, Send { mime_type, fd }:
\* the bytes handed to write_all, None when nothing is written
OnSend(bs, mime_type) ==
    IF IsSome(bs.current_source_entry_id)
    THEN LET item == get_item_by_id(bs, Unwrap(bs.current_source_entry_id))
         IN IF IsSome(item) THEN IndexMapGet(Unwrap(item).mime_data, mime_type) ELSE None
    ELSE None

\* a Send handler that writes the item's first format whatever was asked for
SendEnds_first_format(bs, mime_type) ==
    IF IsSome(bs.current_source_entry_id) /\ IsSome(get_item_by_id(bs, Unwrap(bs.current_source_entry_id)))
    THEN [written |-> Some(Unwrap(get_item_by_id(bs, Unwrap(bs.current_source_entry_id))).mime_data[1][2]),
          dropped |-> "File"]
    ELSE [written |-> None, dropped |-> "OwnedFd"]

\* the Send handler and its descriptor: fd is moved into a File once the
\* item is found and stays the event's OwnedFd otherwise; the handler drops
\* whichever holds it when it returns, and the drop closes the descriptor
SendEnds(bs, mime_type) ==
    [written |-> OnSend(bs, mime_type),
     dropped |-> IF IsSome(bs.current_source_entry_id)
                    /\ IsSome(get_item_by_id(bs, Unwrap(bs.current_source_entry_id)))
                 THEN "File"
                 ELSE "OwnedFd"]

\* a Cancelled handler that does not compare the source with the current one
OnCancelled_any_source(w, event_source) ==
    DestroySource([w EXCEPT !.bs.suppress_next_selection_read = FALSE,
                            !.bs.current_source_object = None],
                  event_source)

\* a Cancelled handler that gives up the source and goes on suppressing
ForgetIfCurrent_keeps_suppress(w, event_source) ==
    IF w.bs.current_source_object = Some(event_source)
    THEN [w EXCEPT !.bs.current_source_object = None]
    ELSE w

\* the Cancelled handler up to its drop(state): the record gives up the
\* source if it is the current one
ForgetIfCurrent(w, event_source) ==
    IF w.bs.current_source_object = Some(event_source)
    THEN [w EXCEPT !.bs.suppress_next_selection_read = FALSE,
                   !.bs.current_source_object = None]
    ELSE w

\* Dispatch<ZwlrDataControlSourceV1>::event, Cancelled
OnCancelled(w, event_source) == DestroySource(ForgetIfCurrent(w, event_source), event_source)

\* Drop for WaylandClipboardMonitor
OnDrop(w) ==
    LET w1 == IF w.bs.data_control_device
              THEN [w EXCEPT !.bs.data_control_device = FALSE,
                             !.wire = Append(@, Req("device.destroy", 0, <<>>))]
              ELSE w
        w2 == IF IsSome(w1.bs.current_source_object)
              THEN [DestroySource(w1, Unwrap(w1.bs.current_source_object))
                       EXCEPT !.bs.current_source_object = None]
              ELSE w1
        w3 == IF w2.bs.data_control_manager
              THEN [w2 EXCEPT !.bs.data_control_manager = FALSE,
                              !.wire = Append(@, Req("manager.destroy", 0, <<>>))]
              ELSE w2
        w4 == [w3 EXCEPT !.bs.seat = FALSE]
    IN IF w4.bs.connection
       THEN [w4 EXCEPT !.wire = Append(@, Req("flush", 0, <<>>))]
       ELSE w4

\* ------------------------------------------------------------ actions
\* the handler op ran: on connection conn (0 for none) with the input arg;
\* it returned ret and issued the requests wire; fd is what went through its
\* descriptors: the bytes a Send handler wrote and what closed its
\* descriptor, the outcome of each transfer a Selection handler was given
Logged(op, conn, arg, ret, wire, fd) ==
    /\ ran' = op
    /\ last' = [conn |-> conn, arg |-> arg, ret |-> ret, wire |-> wire, fd |-> fd]

\* a step that leaves the mutex as it found it: op runs without it, or takes
\* it, runs to its end and drops the guard
Ran(op, conn, arg, ret, wire, fd) ==
    /\ Logged(op, conn, arg, ret, wire, fd)
    /\ UNCHANGED lock

\* what a handler leaves behind; a behaviour stays within the bounds
Commit(w) ==
    /\ Len(w.ids) <= MaxInserts - inserts
    /\ Len(w.ob.sources) <= MaxSources
    /\ \A c \in DOMAIN w.cn : Len(w.cn[c].queue) <= MaxQueue
    /\ backend_state' = w.bs
    /\ push_senders' = w.ps
    /\ conns' = w.cn
    /\ objects' = w.ob
    /\ inserts' = inserts + Len(w.ids)
    /\ issued' = issued \o w.ids

\* the process has not called std::process::exit
Alive == monitor_pc # "exited"

\* "hello"
TEXT_HELLO == <<104, 101, 108, 108, 111>>
\* the four bytes 0x89 "PNG"
PNG_4_BYTES == <<137, 80, 78, 71>>

\* a payload as run_backend's sample loop builds it: one text entry
SamplePayload == << <<MIME_TEXT_UTF8, TEXT_HELLO>> >>

\* the payloads add_clipboard_item is called with directly:
\* none, text "hello", image/png of 4 bytes
DirectPayloads ==
    { <<>>,
      SamplePayload,
      << <<MIME_IMAGE_PNG, PNG_4_BYTES>> >> }

\* the process right after BackendState::new
NewWorld ==
    [bs |-> BackendState_new, ps |-> <<>>, cn |-> <<>>,
     ob |-> [sources |-> <<>>, offers |-> <<>>, selection |-> 0, pending |-> <<>>],
     wire |-> <<>>, ids |-> <<>>]

\* w after n more inserts of the sample payload
RECURSIVE Filled(_, _)
Filled(w, n) ==
    IF n = 0 THEN w
    ELSE LET added == add_clipboard_item(w, SamplePayload)
         IN IF IsSome(added.ret) THEN Filled(added.w, n - 1) ELSE w

\* the ids a client asks for: the first id ever issued, the newest item,
\* the oldest item, an id not issued yet
RequestIds(bs) ==
    {1, bs.id_for_next_entry}
        \cup (IF bs.history = <<>> THEN {}
              ELSE {bs.history[1].item_id, bs.history[Len(bs.history)].item_id})

\* the state after the direct calls that built w0 and run_backend's
\* s.monitor_only = monitor_only
InitWith(w0) ==
    /\ backend_state \in {[w0.bs EXCEPT !.monitor_only = m] : m \in BOOLEAN}
    /\ push_senders = w0.ps
    /\ conns = w0.cn
    /\ objects = w0.ob
    /\ monitor_pc = "connect"
    /\ lock = 0
    /\ inserts = 0
    /\ issued = w0.ids
    /\ ran = "new"
    /\ last = [conn |-> 0, arg |-> <<>>, ret |-> <<>>, wire |-> <<>>, fd |-> None]

Init == InitWith(NewWorld)

\* start_monitoring up to the stored queue handle and connection
StoreQueueHandle ==
    /\ monitor_pc = "connect"
    /\ backend_state' = [backend_state EXCEPT !.qh = TRUE, !.connection = TRUE]
    /\ monitor_pc' = "bind_seat"
    /\ Ran("StoreQueueHandle", 0, <<>>, <<>>, <<>>, None)
    /\ UNCHANGED <<push_senders, conns, objects, inserts, issued>>

\* start_monitoring: globals.bind::<WlSeat> succeeds
BindSeat ==
    /\ monitor_pc = "bind_seat"
    /\ backend_state' = [backend_state EXCEPT !.seat = TRUE]
    /\ monitor_pc' = "bind_manager"
    /\ Ran("BindSeat", 0, <<>>, <<>>, <<>>, None)
    /\ UNCHANGED <<push_senders, conns, objects, inserts, issued>>

\* start_monitoring: globals.bind::<ZwlrDataControlManagerV1> succeeds
BindManager ==
    /\ monitor_pc = "bind_manager"
    /\ backend_state' = [backend_state EXCEPT
                            !.data_control_manager = TRUE,
                            !.data_control_device = IF backend_state.seat THEN TRUE ELSE @]
    /\ monitor_pc' = "loop"
    /\ Ran("BindManager", 0, <<>>, <<>>, <<>>, None)
    /\ UNCHANGED <<push_senders, conns, objects, inserts, issued>>

\* start_monitoring with the else branches of its two binds taken out: a
\* failed bind leaves the handle unbound and start_monitoring goes on
Exit_degraded ==
    /\ monitor_pc \in {"bind_seat", "bind_manager"}
    /\ monitor_pc' = IF monitor_pc = "bind_seat" THEN "bind_manager" ELSE "loop"
    /\ Ran("Exit", 0, <<>>, <<>>, <<>>, None)
    /\ UNCHANGED <<backend_state, push_senders, conns, objects, inserts, issued>>

\* start_monitoring: a bind fails, std::process::exit(1)
Exit ==
    /\ monitor_pc \in {"bind_seat", "bind_manager"}
    /\ monitor_pc' = "exited"
    /\ Ran("Exit", 0, <<>>, <<>>, <<>>, None)
    /\ UNCHANGED <<backend_state, push_senders, conns, objects, inserts, issued>>

\* start_monitoring returns Err (connect, registry or dispatch failure) and
\* the monitor is dropped
Teardown ==
    /\ monitor_pc \in {"connect", "loop"}
    /\ LET w == OnDrop(World)
       IN /\ Commit(w)
          /\ Ran("Drop", 0, <<>>, <<>>, w.wire, None)
    /\ monitor_pc' = "stopped"

\* the compositor announces a new offer
DataOffer ==
    /\ monitor_pc = "loop"
    /\ Len(objects.offers) < MaxOffers
    /\ LET id == Len(objects.offers) + 1
           w0 == [World EXCEPT !.ob.offers = Append(@, [destroyed |-> 0, named |-> FALSE]),
                               !.bs.mime_type_offers = Append(@, None)]
           w == OnDataOffer(w0, id)
       IN /\ Commit(w)
          /\ Ran("DataOffer", 0, <<id>>, <<>>, w.wire, None)
    /\ UNCHANGED monitor_pc

\* the compositor announces a MIME type of an offer: the protocol sends an
\* offer's MIME types right after its data_offer event, before the next
\* data_offer and before the selection event that names the offer
Offer(offer, mime_type) ==
    /\ monitor_pc = "loop"
    /\ offer = Len(objects.offers)
    /\ ~objects.offers[offer].named
    /\ objects.offers[offer].destroyed = 0
    /\ IsSome(backend_state.mime_type_offers[offer]) =>
          Len(Unwrap(backend_state.mime_type_offers[offer])) < MaxMimes
    /\ LET w == OnOffer(World, offer, mime_type)
       IN /\ Commit(w)
          /\ Ran("Offer", 0, <<offer, mime_type>>, <<>>, w.wire, None)
    /\ UNCHANGED monitor_pc

\* the compositor names the selection's offer (or none); outcome is what
\* each MIME type's transfer ends in, should the handler read the offer
Selection(id) ==
    /\ monitor_pc = "loop"
    /\ IsSome(id) => objects.offers[Unwrap(id)].destroyed = 0
    /\ LET n == IF IsSome(id) /\ IsSome(backend_state.mime_type_offers[Unwrap(id)])
                THEN Len(Unwrap(backend_state.mime_type_offers[Unwrap(id)]))
                ELSE 0
       IN \E flush_ok \in BOOLEAN :
          \E outcome \in [1..n -> IF IsSome(id) THEN ReadOutcomes(Unwrap(id)) ELSE {PipeErr}] :
             LET w0 == IF IsSome(id) THEN [World EXCEPT !.ob.offers[Unwrap(id)].named = TRUE] ELSE World
                 w == OnSelection(w0, id, outcome, flush_ok)
             IN /\ Commit(w)
                /\ Ran("Selection", 0, id, <<>>, w.wire, outcome)
    /\ UNCHANGED monitor_pc

\* a client asks a source of the daemon for the data of one MIME type
Send(event_source, mime_type) ==
    /\ monitor_pc = "loop"
    /\ Ran("Send", 0, <<event_source, mime_type>>, <<>>, <<>>, SendEnds(backend_state, mime_type))
    /\ UNCHANGED <<backend_state, push_senders, conns, objects, monitor_pc, inserts, issued>>

\* the compositor cancels a source the daemon created (once per source)
Cancelled(event_source) ==
    /\ monitor_pc = "loop"
    /\ ~objects.sources[event_source].cancelled
    /\ LET w0 == [World EXCEPT !.ob.sources[event_source].cancelled = TRUE]
           w == OnCancelled(w0, event_source)
       IN /\ Commit(w)
          /\ Ran("Cancelled", 0, <<event_source>>, <<>>, w.wire, None)
    /\ UNCHANGED monitor_pc

\* ---------------------------------- direct calls on the locked state
\* BackendState::add_clipboard_item called under the lock (run_backend's
\* sample loop)
CallAddClipboardItem(mime_content) ==
    /\ Alive
    /\ LET r == add_clipboard_item(World, mime_content)
       IN /\ Commit(r.w)
          /\ Ran("add_clipboard_item", 0, mime_content, r.ret, r.w.wire, None)
    /\ UNCHANGED monitor_pc

\* BackendState::set_clipboard_by_id called under the lock
CallSetClipboardById(entry_id) ==
    /\ Alive
    /\ \E flush_ok \in BOOLEAN :
          LET r == set_clipboard_by_id(World, entry_id, flush_ok)
          IN /\ Commit(r.w)
             /\ Ran("set_clipboard_by_id", 0, <<entry_id>>, r.ret, r.w.wire, None)
    /\ UNCHANGED monitor_pc

\* BackendState::clear_history called under the lock
CallClearHistory ==
    /\ Alive
    /\ Commit([World EXCEPT !.bs = clear_history(@)])
    /\ Ran("clear_history", 0, <<>>, <<>>, <<>>, None)
    /\ UNCHANGED monitor_pc

\* BackendState::get_history called under the lock
CallGetHistory ==
    /\ Alive
    /\ Ran("get_history", 0, <<>>, get_history(backend_state), <<>>, None)
    /\ UNCHANGED <<backend_state, push_senders, conns, objects, monitor_pc, inserts, issued>>

\* ---------------------------------------------------------------- IPC
\* FrontendMessage
ReqGetHistory == [kind |-> "GetHistory", id |-> 0]
ReqSetClipboardById(id) == [kind |-> "SetClipboardById", id |-> id]
ReqClearHistory == [kind |-> "ClearHistory", id |-> 0]

Requests(bs) == {ReqGetHistory, ReqClearHistory} \cup {ReqSetClipboardById(id) : id \in RequestIds(bs)}

\* run_backend accepts a connection; handle_client up to its read loop:
\* the channel, register_push_sender, the writer task
Accept ==
    /\ Alive
    /\ Len(conns) < MaxConns
    /\ LET c == Len(conns) + 1
       IN /\ conns' = Append(conns, [reader |-> "reading", lines |-> 0, request |-> None,
                                     response |-> None, queue |-> <<>>, rx_alive |-> TRUE,
                                     peer_open |-> TRUE])
          /\ push_senders' = Append(push_senders, c)
          /\ Ran("Accept", c, <<>>, <<>>, <<>>, None)
    /\ UNCHANGED <<backend_state, objects, monitor_pc, inserts, issued>>

\* handle_client's match on one request, under the lock; the result is
\* [w, response]
HandleRequest(w, message, flush_ok) ==
    IF message.kind = "GetHistory"
    THEN [w |-> w, response |-> MsgHistory(get_history(w.bs))]
    ELSE IF message.kind = "SetClipboardById"
    THEN LET r == set_clipboard_by_id(w, message.id, flush_ok)
         IN [w |-> r.w,
             response |-> IF r.ret.ok THEN MsgClipboardSet ELSE MsgError(r.ret.err)]
    ELSE [w |-> [w EXCEPT !.bs = clear_history(@)], response |-> MsgHistoryCleared]

\* the request lines read so far by the connections 1..n
RECURSIVE LinesRead(_, _)
LinesRead(cn, n) == IF n = 0 THEN 0 ELSE cn[n].lines + LinesRead(cn, n - 1)

\* handle_client reads a well-formed line and computes its response; the
\* connections read at most max_lines lines in one behaviour
ReadLine(c, message, max_lines) ==
    /\ Alive
    /\ conns[c].reader = "reading"
    /\ LinesRead(conns, Len(conns)) < max_lines
    /\ \E flush_ok \in BOOLEAN :
          LET r == HandleRequest(World, message, flush_ok)
          IN /\ Commit([r.w EXCEPT !.cn[c].reader = "replying", !.cn[c].lines = @ + 1,
                                    !.cn[c].response = Some(r.response)])
             /\ Ran(message.kind, c, <<message.id>>, r.response, r.w.wire, None)
    /\ UNCHANGED monitor_pc

\* handle_client reads a well-formed line while the monitor starts or stops
IpcRequest(c, message) == ReadLine(c, message, MaxRequests)

\* handle_client: let _ = out_tx.send(response)
IpcReply(c) ==
    /\ Alive
    /\ conns[c].reader = "replying"
    /\ \E w \in {[World EXCEPT !.cn = [ChannelSend(@, c, Unwrap(conns[c].response))
                                           EXCEPT ![c].reader = "reading", ![c].response = None]]} :
          Commit(w)
    /\ Ran("Reply", c, <<>>, <<>>, <<>>, None)
    /\ UNCHANGED monitor_pc

\* a malformed line that ends the read loop of every connection
IpcMalformed_ends_all(c) ==
    /\ Alive
    /\ conns[c].reader = "reading"
    /\ conns' = [d \in DOMAIN conns |-> [conns[d] EXCEPT !.reader = "ended"]]
    /\ Ran("Malformed", c, <<>>, <<>>, <<>>, None)
    /\ UNCHANGED <<backend_state, push_senders, objects, monitor_pc, inserts, issued>>

\* handle_client reads a line serde_json rejects and returns Err
IpcMalformed(c) ==
    /\ Alive
    /\ conns[c].reader = "reading"
    /\ conns' = [conns EXCEPT ![c].reader = "ended"]
    /\ Ran("Malformed", c, <<>>, <<>>, <<>>, None)
    /\ UNCHANGED <<backend_state, push_senders, objects, monitor_pc, inserts, issued>>

\* the client closes its socket
PeerClose(c) ==
    /\ Alive
    /\ conns[c].peer_open
    /\ conns' = [conns EXCEPT ![c].peer_open = FALSE]
    /\ Ran("PeerClose", c, <<>>, <<>>, <<>>, None)
    /\ UNCHANGED <<backend_state, push_senders, objects, monitor_pc, inserts, issued>>

\* handle_client: next_line returns None and the read loop ends
ReaderEof(c) ==
    /\ Alive
    /\ conns[c].reader = "reading"
    /\ ~conns[c].peer_open
    /\ conns' = [conns EXCEPT ![c].reader = "ended"]
    /\ Ran("Eof", c, <<>>, <<>>, <<>>, None)
    /\ UNCHANGED <<backend_state, push_senders, objects, monitor_pc, inserts, issued>>

\* A variant whose loop goes on after a failed write: the receiver stays
\* alive.
Writer_survives_failure(c) ==
    /\ Alive
    /\ conns[c].rx_alive
    /\ conns[c].queue # <<>>
    /\ conns' = [conns EXCEPT ![c].queue = Tail(@)]
    /\ Ran("Writer", c, <<>>, <<>>, <<>>, None)
    /\ UNCHANGED <<backend_state, push_senders, objects, monitor_pc, inserts, issued>>

\* the writer task takes one message and writes it to the socket; a failed
\* write ends the task, which drops the receiver
Writer(c) ==
    /\ Alive
    /\ conns[c].rx_alive
    /\ conns[c].queue # <<>>
    /\ conns' = IF conns[c].peer_open
                THEN [conns EXCEPT ![c].queue = Tail(@)]
                ELSE [conns EXCEPT ![c].queue = <<>>, ![c].rx_alive = FALSE]
    /\ Ran("Writer", c, <<>>, <<>>, <<>>, None)
    /\ UNCHANGED <<backend_state, push_senders, objects, monitor_pc, inserts, issued>>

\* ----------------------------------------------------- specifications
\* start_monitoring and the monitor's drop
Lifecycle ==
    \/ StoreQueueHandle
    \/ BindSeat
    \/ BindManager
    \/ Exit
    \/ Teardown

\* the compositor's events
Compositor ==
    \/ DataOffer
    \/ \E o \in 1..Len(objects.offers) : \E m \in AnnouncedMimes : Offer(o, m)
    \/ \E id \in {None} \cup {Some(o) : o \in 1..Len(objects.offers)} : Selection(id)
    \/ \E s \in 1..Len(objects.sources) : \E m \in AnnouncedMimes : Send(s, m)
    \/ \E s \in 1..Len(objects.sources) : Cancelled(s)

\* BackendState's operations, each under the lock
Calls ==
    \/ \E mc \in DirectPayloads : CallAddClipboardItem(mc)
    \/ \E id \in RequestIds(backend_state) : CallSetClipboardById(id)
    \/ CallClearHistory
    \/ CallGetHistory

\* the IPC server's connections
Ipc ==
    \/ Accept
    \/ \E c \in 1..Len(conns) : \E message \in Requests(backend_state) : IpcRequest(c, message)
    \/ \E c \in 1..Len(conns) : IpcReply(c)
    \/ \E c \in 1..Len(conns) : IpcMalformed(c)
    \/ \E c \in 1..Len(conns) : PeerClose(c)
    \/ \E c \in 1..Len(conns) : ReaderEof(c)
    \/ \E c \in 1..Len(conns) : Writer(c)

\* the daemon against the compositor; the requests of IPC clients appear as
\* the calls their handlers make on the locked state
Next == Lifecycle \/ Compositor \/ Calls

Spec == Init /\ [][Next]_vars

\* the IPC server beside the monitor's startup and teardown and the inserts
NextIpc == Lifecycle \/ Ipc \/ \E mc \in {<<>>, SamplePayload} : CallAddClipboardItem(mc)

SpecIpc == Init /\ [][NextIpc]_vars

\* the store one insert below its capacity (filled in two runs, which keeps
\* the evaluation shallow), then BackendState's operations
InitNearCap ==
    InitWith(Filled(Filled(NewWorld, HistoryCap \div 2), HistoryCap - 1 - HistoryCap \div 2))

SpecStore == InitNearCap /\ [][Calls]_vars

\* ------------------------------------------------- serving clients
\* request lines the connections read in one behaviour of SpecServing
MaxServedRequests == 2

\* the daemon at work: the monitor in its dispatch loop with every handle
\* bound, one item in the history, no client connected yet
InitServing ==
    /\ backend_state \in
          {[Filled(NewWorld, 1).bs EXCEPT !.qh = TRUE, !.connection = TRUE, !.seat = TRUE,
                                         !.data_control_manager = TRUE,
                                         !.data_control_device = TRUE,
                                         !.monitor_only = m] : m \in BOOLEAN}
    /\ push_senders = <<>>
    /\ conns = <<>>
    /\ objects = NewWorld.ob
    /\ monitor_pc = "loop"
    /\ lock = 0
    /\ inserts = 0
    /\ issued = Filled(NewWorld, 1).ids
    /\ ran = "new"
    /\ last = [conn |-> 0, arg |-> <<>>, ret |-> <<>>, wire |-> <<>>, fd |-> None]

\* handle_client reads a well-formed line of a client of the running daemon
ServeRequest(c, message) == ReadLine(c, message, MaxServedRequests)

\* the IPC server of the running daemon
NextServing ==
    \/ Accept
    \/ \E c \in 1..Len(conns) : \E message \in Requests(backend_state) : ServeRequest(c, message)
    \/ \E c \in 1..Len(conns) : IpcReply(c)
    \/ \E c \in 1..Len(conns) : IpcMalformed(c)
    \/ \E c \in 1..Len(conns) : PeerClose(c)
    \/ \E c \in 1..Len(conns) : ReaderEof(c)
    \/ \E c \in 1..Len(conns) : Writer(c)

SpecServing == InitServing /\ [][NextServing]_vars

\* ------------------------------------------ the compositor's side
\* The compositor keeps one selection; objects.selection is the source of
\* the daemon that is the selection, 0 when the selection is another
\* client's or empty.  Its events reach the dispatch loop in the order it
\* sent them: objects.pending holds the events sent and not yet dispatched.
\* A request of the daemon takes effect when the handler that issued it
\* returns.
\* selection changes by other clients per behaviour
MaxCopies == 1

Ev(name, obj, arg) == [ev |-> name, obj |-> obj, arg |-> arg]

\* data_offer, one offer per MIME type, selection: how a device learns of
\* the selection o
Announcement(o, mimes) ==
    <<Ev("data_offer", o, <<>>)>>
        \o [i \in 1..Len(mimes) |-> Ev("offer", o, mimes[i])]
        \o <<Ev("selection", o, <<>>)>>

\* the source that was the selection learns that it is replaced
Replaced(ob) ==
    IF ob.selection # 0
    THEN [ob EXCEPT !.pending = Append(@, Ev("cancelled", ob.selection, <<>>)), !.selection = 0]
    ELSE ob

\* the selection becomes the data of origin (a source of the daemon, 0 for
\* another client) and is announced to the daemon's device as a new offer
Selected(ob, origin, mimes) ==
    [ob EXCEPT !.selection = origin,
               !.offers = Append(@, [destroyed |-> 0, named |-> FALSE, origin |-> origin]),
               !.pending = @ \o Announcement(Len(ob.offers) + 1, mimes)]

\* the MIME types the requests in wire offered on source s
OfferedOn(wire, s) ==
    [i \in 1..Len(SelectSeq(wire, LAMBDA r : r.req = "source.offer" /\ r.obj = s)) |->
        SelectSeq(wire, LAMBDA r : r.req = "source.offer" /\ r.obj = s)[i].arg]

\* the compositor receives request r, one of the requests in wire
Request(ob, wire, r) ==
    IF r.req = "set_selection"
    THEN Selected(Replaced(ob), r.obj, OfferedOn(wire, r.obj))
    ELSE IF r.req = "source.destroy" /\ ob.selection = r.obj
    THEN [ob EXCEPT !.selection = 0, !.pending = Append(@, Ev("selection", 0, <<>>))]
    ELSE ob

\* the compositor receives the requests of wire from the i-th on
RECURSIVE Served(_, _, _)
Served(ob, wire, i) ==
    IF i > Len(wire) THEN ob ELSE Served(Request(ob, wire, wire[i]), wire, i + 1)

\* what a handler leaves behind, and what the compositor makes of its requests
CommitWire(w) == Commit([w EXCEPT !.ob = Served(@, w.wire, 1)])

\* the MIME lists another client's selection comes with
CopiedMimes == {<<MIME_TEXT_UTF8>>, <<MIME_VIDEO_MP4, MIME_IMAGE_PNG>>}

\* another client sets the selection
ExternalCopy(mimes) ==
    /\ monitor_pc = "loop"
    /\ Cardinality({o \in DOMAIN objects.offers : objects.offers[o].origin = 0}) < MaxCopies
    /\ objects' = Selected(Replaced(objects), 0, mimes)
    /\ Ran("ExternalCopy", 0, <<Len(objects.offers) + 1>>, <<>>, <<>>, None)
    /\ UNCHANGED <<backend_state, push_senders, conns, monitor_pc, inserts, issued>>

\* the dispatch loop has an event of this name to handle next
Pending(name) ==
    /\ monitor_pc = "loop"
    /\ objects.pending # <<>>
    /\ Head(objects.pending).ev = name

\* the world once the next event is taken off the connection
Taken == [World EXCEPT !.ob.pending = Tail(@)]

\* blocking_dispatch hands a DataOffer event to the device's handler
WireDataOffer ==
    /\ Pending("data_offer")
    /\ \E w \in {OnDataOffer([Taken EXCEPT !.bs.mime_type_offers = Append(@, None)],
                              Head(objects.pending).obj)} :
          /\ Commit(w)
          /\ Ran("DataOffer", 0, <<Head(objects.pending).obj>>, <<>>, w.wire, None)
    /\ UNCHANGED monitor_pc

\* blocking_dispatch hands an Offer event to the offer's handler
WireOffer ==
    /\ Pending("offer")
    /\ \E w \in {OnOffer(Taken, Head(objects.pending).obj, Head(objects.pending).arg)} :
          /\ Commit(w)
          /\ Ran("Offer", 0, <<Head(objects.pending).obj, Head(objects.pending).arg>>, <<>>, w.wire, None)
    /\ UNCHANGED monitor_pc

\* Option<offer> of a selection event
Named(o) == IF o = 0 THEN None ELSE Some(o)

\* blocking_dispatch hands a Selection event to the device's handler
WireSelection ==
    /\ Pending("selection")
    /\ LET o == Head(objects.pending).obj
           n == IF o # 0 /\ IsSome(backend_state.mime_type_offers[o])
                THEN Len(Unwrap(backend_state.mime_type_offers[o]))
                ELSE 0
       IN \E flush_ok \in BOOLEAN :
          \E outcome \in [1..n -> IF o # 0 THEN ReadOutcomes(o) ELSE {PipeErr}] :
             LET w == OnSelection(IF o # 0 THEN [Taken EXCEPT !.ob.offers[o].named = TRUE] ELSE Taken,
                                  Named(o), outcome, flush_ok)
             IN /\ CommitWire(w)
                /\ Ran("Selection", 0, Named(o), <<>>, w.wire, outcome)
    /\ UNCHANGED monitor_pc

\* blocking_dispatch hands a Cancelled event to the source's handler
WireCancelled ==
    /\ Pending("cancelled")
    /\ LET w == OnCancelled([Taken EXCEPT !.ob.sources[Head(objects.pending).obj].cancelled = TRUE],
                            Head(objects.pending).obj)
       IN /\ CommitWire(w)
          /\ Ran("Cancelled", 0, <<Head(objects.pending).obj>>, <<>>, w.wire, None)
    /\ UNCHANGED monitor_pc

\* BackendState::set_clipboard_by_id called under the lock for a client
WireSetClipboardById(entry_id) ==
    /\ Alive
    /\ \E flush_ok \in BOOLEAN :
          LET r == set_clipboard_by_id(World, entry_id, flush_ok)
          IN /\ CommitWire(r.w)
             /\ Ran("set_clipboard_by_id", 0, <<entry_id>>, r.ret, r.w.wire, None)
    /\ UNCHANGED monitor_pc

\* start_monitoring returns Err and the monitor is dropped
WireTeardown ==
    /\ monitor_pc \in {"connect", "loop"}
    /\ LET w == OnDrop(World)
       IN /\ CommitWire(w)
          /\ Ran("Drop", 0, <<>>, <<>>, w.wire, None)
    /\ monitor_pc' = "stopped"

\* the daemon on a connection that keeps the order of the compositor's events
NextWire ==
    \/ StoreQueueHandle
    \/ BindSeat
    \/ BindManager
    \/ Exit
    \/ WireTeardown
    \/ \E mimes \in CopiedMimes : ExternalCopy(mimes)
    \/ WireDataOffer
    \/ WireOffer
    \/ WireSelection
    \/ WireCancelled
    \/ CallAddClipboardItem(SamplePayload)
    \/ \E id \in RequestIds(backend_state) : WireSetClipboardById(id)

SpecWire == Init /\ [][NextWire]_vars

\* ------------------------------------------- the mutex, step by step
\* The contexts that lock BackendState: the dispatch thread, inside the
\* handlers blocking_dispatch calls, and the reader task of each connection c
\* (lock = c).  A handler that neither blocks nor drops its guard early is
\* one step.  The Selection handler holds the guard while
\* process_all_data_formats waits in read_to_end; the Cancelled handler
\* drops it before it destroys the source.
DispatchThread == 0 - 1

\* handle_client has read a well-formed line and stands at state.lock()
LineArrives(c, message) ==
    /\ conns[c].reader = "reading"
    /\ LinesRead(conns, Len(conns)) < MaxServedRequests
    /\ conns' = [conns EXCEPT ![c].reader = "locking", ![c].lines = @ + 1,
                              ![c].request = Some(message)]
    /\ Ran("Line", c, <<message.id>>, <<>>, <<>>, None)
    /\ UNCHANGED <<backend_state, push_senders, objects, monitor_pc, inserts, issued>>

\* a reader task that still holds the guard when it goes on to send the
\* response and to await the next line
HandleLocked_keeps_guard(c) ==
    /\ c \in DOMAIN conns
    /\ conns[c].reader = "locking"
    /\ lock = 0
    /\ \E flush_ok \in BOOLEAN :
       \E r \in {HandleRequest(World, Unwrap(conns[c].request), flush_ok)} :
          /\ CommitWire([r.w EXCEPT !.cn[c].reader = "replying", !.cn[c].request = None,
                                     !.cn[c].response = Some(r.response)])
          /\ Logged(Unwrap(conns[c].request).kind, c, <<Unwrap(conns[c].request).id>>,
                    r.response, r.w.wire, None)
    /\ lock' = c
    /\ UNCHANGED monitor_pc

\* a reader task that computes its response without waiting for the mutex
HandleLocked_unlocked(c) ==
    /\ c \in DOMAIN conns
    /\ conns[c].reader = "locking"
    /\ \E flush_ok \in BOOLEAN :
       \E r \in {HandleRequest(World, Unwrap(conns[c].request), flush_ok)} :
          /\ CommitWire([r.w EXCEPT !.cn[c].reader = "replying", !.cn[c].request = None,
                                     !.cn[c].response = Some(r.response)])
          /\ Ran(Unwrap(conns[c].request).kind, c, <<Unwrap(conns[c].request).id>>,
                 r.response, r.w.wire, None)
    /\ UNCHANGED monitor_pc

\* handle_client's match arm: the guard is taken, the response computed and
\* the guard dropped at the end of the arm
HandleLocked(c) ==
    /\ c \in DOMAIN conns
    /\ conns[c].reader = "locking"
    /\ lock = 0
    /\ \E flush_ok \in BOOLEAN :
       \E r \in {HandleRequest(World, Unwrap(conns[c].request), flush_ok)} :
          /\ CommitWire([r.w EXCEPT !.cn[c].reader = "replying", !.cn[c].request = None,
                                     !.cn[c].response = Some(r.response)])
          /\ Ran(Unwrap(conns[c].request).kind, c, <<Unwrap(conns[c].request).id>>,
                 r.response, r.w.wire, None)
    /\ UNCHANGED monitor_pc

\* a device handler that enters the Selection arm without the guard
SelectionLocks_without_guard ==
    /\ Pending("selection")
    /\ lock' = lock
    /\ monitor_pc' = "selection"
    /\ Logged("lock", 0, Named(Head(objects.pending).obj), <<>>, <<>>, None)
    /\ UNCHANGED <<backend_state, push_senders, conns, objects, inserts, issued>>

\* the device's handler is entered for a Selection event and takes the guard
SelectionLocks ==
    /\ Pending("selection")
    /\ lock = 0
    /\ lock' = DispatchThread
    /\ monitor_pc' = "selection"
    /\ Logged("lock", 0, Named(Head(objects.pending).obj), <<>>, <<>>, None)
    /\ UNCHANGED <<backend_state, push_senders, conns, objects, inserts, issued>>

\* the Selection handler for offer o (0 for none) gets as far as a
\* read_to_end: the offer is announced with a MIME type, no read is
\* suppressed and the offer is not the current one
ReadsPipe(bs, o) ==
    /\ o # 0
    /\ IsSome(bs.mime_type_offers[o])
    /\ Unwrap(bs.mime_type_offers[o]) # <<>>
    /\ ~bs.suppress_next_selection_read
    /\ bs.current_data_offer # Some(o)

\* read_to_end on a pipe whose write end the owner never closes
TransferStalls ==
    /\ monitor_pc = "selection"
    /\ ReadsPipe(backend_state, Head(objects.pending).obj)
    /\ monitor_pc' = "stalled"
    /\ Logged("stall", 0, Named(Head(objects.pending).obj), <<>>, <<>>, None)
    /\ UNCHANGED <<backend_state, push_senders, conns, objects, lock, inserts, issued>>

\* what the transfers of the Selection handler for offer o can end in
TransferOutcomes(bs, o) ==
    [1..(IF o # 0 /\ IsSome(bs.mime_type_offers[o]) THEN Len(Unwrap(bs.mime_type_offers[o])) ELSE 0)
        -> IF o # 0 THEN ReadOutcomes(o) ELSE {PipeErr}]

\* the Selection handler returns: every transfer has ended, the guard is
\* dropped
SelectionReturns ==
    /\ monitor_pc = "selection"
    /\ lock = DispatchThread
    /\ LET o == Head(objects.pending).obj
       IN \E flush_ok \in BOOLEAN :
          \E outcome \in TransferOutcomes(backend_state, o) :
          \E w \in {OnSelection(IF o # 0 THEN [Taken EXCEPT !.ob.offers[o].named = TRUE] ELSE Taken,
                                 Named(o), outcome, flush_ok)} :
             /\ CommitWire(w)
             /\ Logged("Selection", 0, Named(o), <<>>, w.wire, outcome)
    /\ lock' = 0
    /\ monitor_pc' = "loop"

\* the source's handler for a Cancelled event up to its drop(state)
CancelledLocked ==
    /\ Pending("cancelled")
    /\ lock = 0
    /\ \E w \in {ForgetIfCurrent([World EXCEPT !.ob.sources[Head(objects.pending).obj].cancelled = TRUE],
                                  Head(objects.pending).obj)} :
          /\ Commit(w)
          /\ Ran("Cancelled", 0, <<Head(objects.pending).obj>>, <<>>, w.wire, None)
    /\ monitor_pc' = "destroy"

\* the Cancelled handler after drop(state): event_source.destroy(), return
CancelledDestroys ==
    /\ monitor_pc = "destroy"
    /\ \E w \in {DestroySource(Taken, Head(objects.pending).obj)} :
          /\ CommitWire(w)
          /\ Ran("destroy", 0, <<Head(objects.pending).obj>>, <<>>, w.wire, None)
    /\ monitor_pc' = "loop"

\* the steps of the dispatch thread that end by themselves
DispatchSteps ==
    \/ (lock = 0 /\ WireDataOffer)
    \/ (lock = 0 /\ WireOffer)
    \/ SelectionLocks
    \/ SelectionReturns
    \/ CancelledLocked
    \/ CancelledDestroys

\* the running daemon, its clients and the compositor
NextLock ==
    \/ Accept
    \/ \E c \in 1..Len(conns) : \E message \in Requests(backend_state) : LineArrives(c, message)
    \/ \E c \in 1..Len(conns) : HandleLocked(c)
    \/ \E c \in 1..Len(conns) : IpcReply(c)
    \/ \E c \in 1..Len(conns) : Writer(c)
    \/ \E mimes \in CopiedMimes : ExternalCopy(mimes)
    \/ DispatchSteps
    \/ TransferStalls

\* the program's state without the record of the handler that ran last
program_vars == <<backend_state, push_senders, conns, objects, monitor_pc, lock, inserts, issued>>

\* blocking_dispatch hands over every event that has arrived, and the
\* runtime polls every reader task that can go on
SpecLock ==
    /\ InitServing
    /\ [][NextLock]_vars
    /\ WF_program_vars(DispatchSteps)
    /\ \A c \in 1..MaxConns :
          WF_program_vars(HandleLocked(c) \/ (c \in DOMAIN conns /\ IpcReply(c)))

\* a client's publish, as the one step its reader task makes of it
LockedSetClipboardById(entry_id) ==
    /\ lock = 0
    /\ monitor_pc \in {"loop", "destroy"}
    /\ WireSetClipboardById(entry_id)

\* the running daemon between the compositor and the clients' publishes
NextTakeover ==
    \/ \E mimes \in CopiedMimes : ExternalCopy(mimes)
    \/ \E id \in RequestIds(backend_state) : LockedSetClipboardById(id)
    \/ DispatchSteps
    \/ TransferStalls

\* blocking_dispatch hands over every event that has arrived
SpecTakeover ==
    /\ InitServing
    /\ [][NextTakeover]_vars
    /\ WF_program_vars(DispatchSteps)

\* ------------------------------------------------------- the store
\* the ownership record of BackendState
OwnershipRecord(bs) ==
    [ current_data_offer |-> bs.current_data_offer,
      current_source_object |-> bs.current_source_object,
      current_source_entry_id |-> bs.current_source_entry_id,
      suppress_next_selection_read |-> bs.suppress_next_selection_read ]

\* the history holds an item with this id
HasItem(bs, id) == \E i \in 1..Len(bs.history) : bs.history[i].item_id = id

\* set_clipboard_by_id finds the manager, the device and the queue handle
HandlesBound(bs) == bs.data_control_manager /\ bs.data_control_device /\ bs.qh

\* C1: over every sequence of inserts, clears and publishes, each id that
\* add_clipboard_item returns is strictly greater than every id it returned
\* before; no id is returned twice, also not after clear_history.
C1_IdsStrictlyIncreasing ==
    \A i, j \in DOMAIN issued : i < j => issued[i] < issued[j]

\* an insert that follows an insert and a clear_history: two ids were
\* returned and the history holds the second item alone
C1_InsertAfterClear ==
    /\ ran = "add_clipboard_item"
    /\ Len(issued) = 2
    /\ last.ret = Some(issued[2])
    /\ Len(backend_state.history) = 1
    /\ backend_state.history[1].item_id = issued[2]

\* C2: the history never holds more than 100 items; an insert into a full
\* history removes exactly the item at the last position (the oldest, with
\* the lowest id) and keeps the other 99 behind the new item.
C2_OldestDroppedAtCapacity ==
    [][/\ Len(backend_state.history) <= HistoryCap
       /\ Len(backend_state'.history) <= HistoryCap
       /\ (/\ ran' = "add_clipboard_item"
           /\ IsSome(last'.ret)
           /\ Len(backend_state.history) = HistoryCap)
          => /\ Len(backend_state'.history) = HistoryCap
             /\ backend_state'.history[1].item_id = Unwrap(last'.ret)
             /\ \A i \in 2..HistoryCap :
                   backend_state'.history[i] = backend_state.history[i - 1]
             /\ \A i \in 1..HistoryCap :
                   backend_state'.history[i].item_id # backend_state.history[HistoryCap].item_id
             /\ \A i \in 1..(HistoryCap - 1) :
                   backend_state.history[HistoryCap].item_id < backend_state.history[i].item_id
      ]_vars

\* the 101st insert has happened: the history is full and item 1 is gone
C2_InsertedIntoFull ==
    /\ ran = "add_clipboard_item"
    /\ IsSome(last.ret)
    /\ Unwrap(last.ret) = HistoryCap + 1
    /\ Len(backend_state.history) = HistoryCap
    /\ backend_state.history[1].item_id = HistoryCap + 1
    /\ backend_state.history[HistoryCap].item_id = 2

\* C3: the item ids of the history strictly decrease from the first position
\* to the last, and get_history returns the items' previews in that order.
C3_MostRecentFirst ==
    /\ \A i, j \in 1..Len(backend_state.history) :
          i < j => backend_state.history[i].item_id > backend_state.history[j].item_id
    /\ ran = "get_history" =>
          /\ Len(last.ret) = Len(backend_state.history)
          /\ \A i \in 1..Len(backend_state.history) :
                last.ret[i] = [ item_id |-> backend_state.history[i].item_id,
                                content_preview |-> backend_state.history[i].content_preview,
                                content_type |-> backend_state.history[i].content_type ]

\* get_history after the text "hello" and then a 4-byte image/png were
\* inserted: the image's preview first, then the text's
C3_TextThenImage ==
    /\ ran = "get_history"
    /\ Len(last.ret) = 2
    /\ last.ret[1].item_id = 2
    /\ last.ret[1].content_type = "Image"
    /\ last.ret[2].item_id = 1
    /\ last.ret[2].content_type = "Text"
    /\ last.ret[2].content_preview = TEXT_HELLO

\* C4: an insert with an empty payload map returns None and changes nothing:
\* the history, the id counter and the ownership record stay as they were
\* and no channel receives a NewItem.
C4_EmptyInsertChangesNothing ==
    [][(ran' = "add_clipboard_item" /\ last'.arg = <<>>)
       => /\ last'.ret = None
          /\ backend_state' = backend_state
          /\ conns' = conns
          /\ push_senders' = push_senders
          /\ objects' = objects
          /\ issued' = issued
      ]_vars

\* an empty insert while two live channels are registered and the history
\* holds an item
C4_EmptyInsertWithChannels ==
    /\ ran = "add_clipboard_item"
    /\ last.arg = <<>>
    /\ last.ret = None
    /\ backend_state.history # <<>>
    /\ Len(push_senders) = 2
    /\ \A c \in DOMAIN conns : conns[c].rx_alive /\ conns[c].queue = <<>>

\* ----------------------------------------------------------- publish
\* C5: set_clipboard_by_id with an id the history does not hold returns
\* "No clipboard item found with ID: <id>", whether or not the handles are
\* bound, leaves the ownership record unchanged and destroys no source.
C5_AbsentIdRejected ==
    [][(ran' = "set_clipboard_by_id" /\ ~HasItem(backend_state, last'.arg[1]))
       => /\ last'.ret = Err(STR_NOT_FOUND \o Decimal(last'.arg[1]))
          /\ OwnershipRecord(backend_state') = OwnershipRecord(backend_state)
          /\ objects' = objects
          /\ last'.wire = <<>>
      ]_vars

\* set_clipboard_by_id(3) is refused with "...ID: 3" while the handles are
\* bound and the daemon holds a source
C5_AbsentIdWhileOwning ==
    /\ ran = "set_clipboard_by_id"
    /\ last.arg = <<3>>
    /\ last.ret = Err(STR_NOT_FOUND \o <<51>>)
    /\ HandlesBound(backend_state)
    /\ IsSome(backend_state.current_source_object)
    /\ backend_state.suppress_next_selection_read

\* C6: a SetClipboardById request for an id the history holds, made while
\* the manager, the device or the queue handle is not bound, is answered
\* with the 'not available' error on the requesting connection's channel
\* only; the ownership record is unchanged, no source is destroyed and no
\* other connection's channel receives anything.
C6_UnboundSetRejected ==
    [][/\ (/\ ran' = "SetClipboardById"
           /\ HasItem(backend_state, last'.arg[1])
           /\ ~HandlesBound(backend_state))
          => /\ last'.ret = MsgError(STR_NOT_AVAILABLE)
             /\ conns'[last'.conn].response = Some(MsgError(STR_NOT_AVAILABLE))
             /\ backend_state' = backend_state
             /\ objects' = objects
             /\ last'.wire = <<>>
             /\ push_senders' = push_senders
             /\ \A c \in DOMAIN conns : conns'[c].queue = conns[c].queue
       /\ (/\ ran' = "Reply"
           /\ conns[last'.conn].response = Some(MsgError(STR_NOT_AVAILABLE)))
          => /\ \A c \in DOMAIN conns \ {last'.conn} : conns'[c] = conns[c]
             /\ conns'[last'.conn].queue =
                   IF conns[last'.conn].rx_alive
                   THEN Append(conns[last'.conn].queue, MsgError(STR_NOT_AVAILABLE))
                   ELSE conns[last'.conn].queue
             /\ backend_state' = backend_state
             /\ objects' = objects
      ]_vars

\* after the monitor's teardown a client's request for an item of the
\* history was answered with the error, while another live registered
\* connection's channel stayed empty
C6_RejectedAfterTeardown ==
    /\ ran = "Reply"
    /\ monitor_pc = "stopped"
    /\ backend_state.history # <<>>
    /\ Len(conns) = 2
    /\ conns[last.conn].queue = <<MsgError(STR_NOT_AVAILABLE)>>
    /\ \E c \in DOMAIN conns \ {last.conn} :
          /\ c \in RangeOf(push_senders)
          /\ conns[c].rx_alive
          /\ conns[c].queue = <<>>

\* C7: set_clipboard_by_id for an id of the history, with the handles
\* bound, destroys the source held before and only then creates a new one,
\* offers the item's MIME types on it in stored order, sets the selection
\* to it, and ends with current_source = the new source,
\* current_source_entry_id = id and suppress_next_selection_read = true; it
\* returns Ok whether the flush succeeds or fails.
C7_Publish ==
    [][(/\ ran' = "set_clipboard_by_id"
        /\ HasItem(backend_state, last'.arg[1])
        /\ HandlesBound(backend_state))
       => LET id == last'.arg[1]
              item == CHOOSE it \in RangeOf(backend_state.history) : it.item_id = id
              prev == backend_state.current_source_object
              source == Len(objects.sources) + 1
              destroy == IF IsSome(prev)
                         THEN <<Req("source.destroy", Unwrap(prev), <<>>)>>
                         ELSE <<>>
              publish == <<Req("create_data_source", source, <<>>)>>
                            \o [i \in 1..Len(item.mime_data) |->
                                   Req("source.offer", source, item.mime_data[i][1])]
                            \o <<Req("set_selection", source, <<>>)>>
          IN /\ last'.ret = Ok
             /\ Len(objects'.sources) = source
             /\ objects'.sources[source].destroyed = 0
             /\ IsSome(prev) =>
                   objects'.sources[Unwrap(prev)].destroyed
                      = objects.sources[Unwrap(prev)].destroyed + 1
             /\ backend_state'.current_source_object = Some(source)
             /\ backend_state'.current_source_entry_id = Some(id)
             /\ backend_state'.suppress_next_selection_read
             /\ \E flush \in {"flush", "flush failed"} :
                   last'.wire = destroy \o publish \o <<Req(flush, 0, <<>>)>>
      ]_vars

\* a publish of an item with two MIME types that replaced a held source
\* and whose flush failed
C7_PublishReplacingSource ==
    /\ ran = "set_clipboard_by_id"
    /\ last.ret = Ok
    /\ Len(last.wire) = 6
    /\ last.wire[1].req = "source.destroy"
    /\ last.wire[3].req = "source.offer"
    /\ last.wire[4].req = "source.offer"
    /\ last.wire[6].req = "flush failed"
    /\ backend_state.current_source_object = Some(2)

\* ------------------------------------------------- compositor events
\* C8: a Selection event that names an announced offer while
\* suppress_next_selection_read is true records the offer as
\* current_data_offer and destroys it; nothing is read, nothing inserted, no
\* NewItem sent; suppress_next_selection_read stays true and current_source
\* stays as it was.
C8_SuppressedSelection ==
    [][(/\ ran' = "Selection"
        /\ IsSome(last'.arg)
        /\ IsSome(backend_state.mime_type_offers[Unwrap(last'.arg)])
        /\ backend_state.suppress_next_selection_read)
       => LET o == Unwrap(last'.arg)
          IN /\ backend_state'.current_data_offer = Some(o)
             /\ last'.wire = <<Req("offer.destroy", o, <<>>)>>
             /\ objects'.offers[o].destroyed = objects.offers[o].destroyed + 1
             /\ backend_state'.history = backend_state.history
             /\ backend_state'.id_for_next_entry = backend_state.id_for_next_entry
             /\ issued' = issued
             /\ conns' = conns
             /\ push_senders' = push_senders
             /\ backend_state'.suppress_next_selection_read
             /\ backend_state'.current_source_object = backend_state.current_source_object
             /\ backend_state'.current_source_entry_id = backend_state.current_source_entry_id
             /\ objects'.sources = objects.sources
      ]_vars

\* the echo of a publish: the Selection event named offer 1, for which two
\* MIME types were announced, while the daemon held a source
C8_EchoDiscarded ==
    /\ ran = "Selection"
    /\ last.arg = Some(1)
    /\ backend_state.suppress_next_selection_read
    /\ IsSome(backend_state.current_source_object)
    /\ backend_state.current_data_offer = Some(1)
    /\ IsSome(backend_state.mime_type_offers[1])
    /\ Len(Unwrap(backend_state.mime_type_offers[1])) = 2
    /\ objects.offers[1].destroyed = 1

\* C9: a Cancelled event for the source that is current_source leaves
\* current_source = None, current_source_entry_id = None and
\* suppress_next_selection_read = false.
C9_CancelledClearsRecord ==
    [][(/\ ran' = "Cancelled"
        /\ backend_state.current_source_object = Some(last'.arg[1]))
       => /\ backend_state'.current_source_object = None
          /\ backend_state'.current_source_entry_id = None
          /\ ~backend_state'.suppress_next_selection_read
      ]_vars

\* the Cancelled event for the current source was handled: the source is
\* given up and destroyed, the entry id is still the published item's
C9_EntryIdKept ==
    /\ ran = "Cancelled"
    /\ last.arg = <<1>>
    /\ objects.sources[1].destroyed = 1
    /\ backend_state.current_source_object = None
    /\ ~backend_state.suppress_next_selection_read
    /\ backend_state.current_source_entry_id = Some(1)

\* C10: a Cancelled event for a source that is not current_source leaves the
\* ownership record, the history and the offer table unchanged: it does not
\* end the suppression a newer publish began.
C10_StaleCancelledIgnored ==
    [][(/\ ran' = "Cancelled"
        /\ backend_state.current_source_object # Some(last'.arg[1]))
       => /\ OwnershipRecord(backend_state') = OwnershipRecord(backend_state)
          /\ backend_state'.history = backend_state.history
          /\ backend_state'.mime_type_offers = backend_state.mime_type_offers
      ]_vars

\* the Cancelled event for source 1 arrived after source 2 had replaced it:
\* source 2 is still current and the suppression still on
C10_CancelledAfterReplacement ==
    /\ ran = "Cancelled"
    /\ last.arg = <<1>>
    /\ backend_state.current_source_object = Some(2)
    /\ backend_state.suppress_next_selection_read
    /\ IsSome(backend_state.current_source_entry_id)

\* the transfers of a Selection event brought at least one non-empty payload
\* for the MIME types mime_types
YieldsPayload(mime_types, outcome) ==
    \E i \in 1..Len(mime_types) : outcome[i].kind = "ok" /\ outcome[i].buf # <<>>

\* the daemon holds no source and reads selections (the spec's Unowned)
Unowned(bs) == IsNone(bs.current_source_object) /\ ~bs.suppress_next_selection_read

\* C11: with monitor_only false and the daemon Unowned, a Selection event
\* that names an announced offer other than current_data_offer and whose
\* read yields at least one non-empty payload inserts exactly one item and
\* ends, in the same handler, with current_source = Some(a new source),
\* suppress_next_selection_read = true and current_source_entry_id = the id
\* of the inserted item, which is the first item of the history.
C11_ReadThenPublish ==
    [][(/\ ran' = "Selection"
        /\ IsSome(last'.arg)
        /\ ~backend_state.monitor_only
        /\ Unowned(backend_state)
        /\ IsSome(backend_state.mime_type_offers[Unwrap(last'.arg)])
        /\ backend_state.current_data_offer # last'.arg
        /\ YieldsPayload(Unwrap(backend_state.mime_type_offers[Unwrap(last'.arg)]), last'.fd))
       => LET new_id == backend_state.id_for_next_entry
              source == Len(objects.sources) + 1
          IN /\ issued' = Append(issued, new_id)
             /\ Len(backend_state'.history) = Len(backend_state.history) + 1
             /\ Tail(backend_state'.history) = backend_state.history
             /\ backend_state'.history[1].item_id = new_id
             /\ Len(objects'.sources) = source
             /\ backend_state'.current_source_object = Some(source)
             /\ backend_state'.suppress_next_selection_read
             /\ backend_state'.current_source_entry_id = Some(new_id)
             /\ \E i \in 1..Len(last'.wire) : last'.wire[i] = Req("set_selection", source, <<>>)
      ]_vars

\* offer 1 of an external owner was read into item 1 and published as
\* source 1 by the Selection handler itself
C11_ExternalCopyTakenOver ==
    /\ ran = "Selection"
    /\ last.arg = Some(1)
    /\ ~backend_state.monitor_only
    /\ issued = <<1>>
    /\ backend_state.history[1].item_id = 1
    /\ backend_state.history[1].mime_data = << <<MIME_TEXT_UTF8, OfferBytes(1)>> >>
    /\ backend_state.current_source_object = Some(1)
    /\ backend_state.current_source_entry_id = Some(1)
    /\ backend_state.suppress_next_selection_read

\* the handlers of the compositor's events
CompositorEvents == {"DataOffer", "Offer", "Selection", "Send", "Cancelled"}

\* C12: with monitor_only true no compositor event creates a source or sets
\* suppress_next_selection_read; a Selection that is read with a payload
\* inserts its item and publishes nothing; current_source becomes Some only
\* in a set_clipboard_by_id a client asked for.
C12_MonitorOnlyNeverPublishes ==
    [][backend_state.monitor_only
       => /\ backend_state'.monitor_only
          /\ ran' \in CompositorEvents
                => /\ Len(objects'.sources) = Len(objects.sources)
                   /\ backend_state'.suppress_next_selection_read
                         => backend_state.suppress_next_selection_read
                   /\ IsSome(backend_state'.current_source_object)
                         => backend_state'.current_source_object = backend_state.current_source_object
                   /\ \A i \in 1..Len(last'.wire) :
                         last'.wire[i].req \notin {"create_data_source", "set_selection"}
          /\ (/\ ran' = "Selection"
              /\ IsSome(last'.arg)
              /\ IsSome(backend_state.mime_type_offers[Unwrap(last'.arg)])
              /\ ~backend_state.suppress_next_selection_read
              /\ backend_state.current_data_offer # last'.arg
              /\ YieldsPayload(Unwrap(backend_state.mime_type_offers[Unwrap(last'.arg)]), last'.fd))
             => /\ issued' = Append(issued, backend_state.id_for_next_entry)
                /\ backend_state'.history[1].item_id = backend_state.id_for_next_entry
          /\ (IsNone(backend_state.current_source_object) /\ IsSome(backend_state'.current_source_object))
             => ran' = "set_clipboard_by_id"
      ]_vars

\* in monitor-only mode offer 1 was read into item 1 and the daemon holds
\* no source
C12_ReadNotPublished ==
    /\ ran = "Selection"
    /\ last.arg = Some(1)
    /\ backend_state.monitor_only
    /\ issued = <<1>>
    /\ backend_state.history[1].item_id = 1
    /\ backend_state.current_source_object = None
    /\ ~backend_state.suppress_next_selection_read
    /\ objects.sources = <<>>
    /\ backend_state.current_data_offer = Some(1)

\* ------------------------------------------------------- ownership
\* C13: in every state outside a critical section current_source is Some if
\* and only if the daemon's source is the compositor's current selection,
\* also between a publish and the compositor's echo or cancellation of it.
C13_SourceIffSelection ==
    IsSome(backend_state.current_source_object)
        <=> /\ objects.selection # 0
            /\ backend_state.current_source_object = Some(objects.selection)

\* another client has taken the selection over and the Cancelled event for
\* source 1 waits on the connection: the daemon still holds source 1 as
\* current_source
C13_HeldAfterTakeover ==
    /\ ran = "ExternalCopy"
    /\ objects.selection = 0
    /\ backend_state.current_source_object = Some(1)
    /\ backend_state.suppress_next_selection_read
    /\ objects.sources[1].destroyed = 0
    /\ \E i \in 1..Len(objects.pending) : objects.pending[i] = Ev("cancelled", 1, <<>>)

\* C14: under every interleaving of the compositor's events and the
\* clients' publishes the dispatch thread never asks for the payload of an
\* offer that stands for a source of the daemon: every offer it reads is
\* another client's.
C14_OwnOfferNeverRead ==
    [][ran' = "Selection"
       => \A i \in 1..Len(last'.wire) :
              last'.wire[i].req = "offer.receive"
                 => objects.offers[last'.wire[i].obj].origin = 0
      ]_vars

\* the echo of source 2, published while the echo of source 1 was still on
\* its way, was named by a Selection event and destroyed unread
C14_SecondEchoUnread ==
    /\ ran = "Selection"
    /\ IsSome(last.arg)
    /\ objects.offers[Unwrap(last.arg)].origin = 2
    /\ last.wire = <<Req("offer.destroy", Unwrap(last.arg), <<>>)>>
    /\ backend_state.current_source_object = Some(2)
    /\ backend_state.suppress_next_selection_read

\* C15: a Send event for MIME type m writes exactly the bytes stored for m
\* in the item current_source_entry_id names, if the history holds that
\* item and the item carries m; it writes nothing when the entry id is None,
\* the item has left the history or the item lacks m; in every case the
\* descriptor is closed and the shared state is unchanged.
C15_SendServesStoredBytes ==
    [][ran' = "Send"
       => LET m == last'.arg[2]
              id == backend_state.current_source_entry_id
              held == IsSome(id) /\ HasItem(backend_state, Unwrap(id))
              item == CHOOSE it \in RangeOf(backend_state.history) : it.item_id = Unwrap(id)
              carries == \E i \in 1..Len(item.mime_data) : item.mime_data[i][1] = m
          IN /\ IF held /\ carries
                THEN \E i \in 1..Len(item.mime_data) :
                        /\ item.mime_data[i][1] = m
                        /\ last'.fd.written = Some(item.mime_data[i][2])
                ELSE last'.fd.written = None
             /\ last'.fd.dropped \in {"File", "OwnedFd"}
             /\ backend_state' = backend_state
             /\ push_senders' = push_senders
             /\ conns' = conns
             /\ objects' = objects
             /\ issued' = issued
      ]_vars

\* item 2 holds an image only; it is published, and a Send event for
\* text/plain;charset=utf-8 finds the item and writes nothing
C15_FormatNotCarried ==
    /\ ran = "Send"
    /\ last.arg[2] = MIME_TEXT_UTF8
    /\ backend_state.current_source_entry_id = Some(2)
    /\ HasItem(backend_state, 2)
    /\ backend_state.history[1].mime_data = << <<MIME_IMAGE_PNG, PNG_4_BYTES>> >>
    /\ last.fd = [written |-> None, dropped |-> "File"]

\* ------------------------------------------------------------- IPC
\* the insert of this step returned an id
Inserted == ran' = "add_clipboard_item" /\ IsSome(last'.ret)

\* connection c is registered and its receiver is alive
Reachable(c) == c \in RangeOf(push_senders) /\ conns[c].rx_alive

\* C16: registering appends one channel; a broadcast delivers one copy of
\* its message to every registered channel whose receiver is alive and
\* removes from the registry exactly the channels whose send fails; nothing
\* else removes a channel, and a channel with a live receiver is never
\* removed.
C16_BroadcastHub ==
    [][/\ ran' = "Accept"
          => /\ push_senders' = Append(push_senders, Len(conns) + 1)
             /\ \A c \in DOMAIN conns : conns'[c] = conns[c]
       /\ Inserted
          => /\ push_senders' = SelectSeq(push_senders, LAMBDA c : conns[c].rx_alive)
             /\ \A c \in DOMAIN conns :
                   conns'[c].queue = IF Reachable(c)
                                     THEN Append(conns[c].queue, MsgNewItem(Preview(backend_state'.history[1])))
                                     ELSE conns[c].queue
       /\ ~(ran' = "Accept" \/ Inserted) => push_senders' = push_senders
       /\ \A c \in DOMAIN conns : Reachable(c) => c \in RangeOf(push_senders')
       /\ \A i, j \in 1..Len(push_senders') : i # j => push_senders'[i] # push_senders'[j]
      ]_vars

\* a broadcast reached connection 2 and removed connection 1, whose writer
\* task had ended
C16_DeadChannelRemoved ==
    /\ ran = "add_clipboard_item"
    /\ Len(conns) = 2
    /\ ~conns[1].rx_alive
    /\ push_senders = <<2>>
    /\ conns[2].rx_alive
    /\ conns[2].queue # <<>>
    /\ conns[2].queue[Len(conns[2].queue)].kind = "NewItem"

\* C17: every successful insert puts exactly one NewItem with the preview of
\* the item just inserted (item_id = the returned id) at the end of every
\* registered channel with a live receiver, behind the NewItems of all
\* earlier, lower ids; it touches no other channel, and an insert of a
\* non-empty payload returns its id whatever the channels are.
C17_NewItemPerInsert ==
    [][(ran' = "add_clipboard_item" /\ last'.arg # <<>>)
       => /\ IsSome(last'.ret)
          /\ backend_state'.history[1].item_id = Unwrap(last'.ret)
          /\ \A c \in DOMAIN conns :
                IF Reachable(c)
                THEN /\ conns'[c].queue =
                           Append(conns[c].queue,
                                  MsgNewItem([ item_id |-> Unwrap(last'.ret),
                                               content_preview |-> backend_state'.history[1].content_preview,
                                               content_type |-> backend_state'.history[1].content_type ]))
                     /\ \A k \in 1..Len(conns[c].queue) :
                           conns[c].queue[k].kind = "NewItem"
                              => conns[c].queue[k].body.item_id < Unwrap(last'.ret)
                ELSE conns'[c].queue = conns[c].queue
      ]_vars

\* the NewItem of the second insert waits behind the NewItem of the first
\* on a connection's channel
C17_TwoNewItemsQueued ==
    /\ ran = "add_clipboard_item"
    /\ last.ret = Some(2)
    /\ \E c \in DOMAIN conns :
          /\ Len(conns[c].queue) = 2
          /\ conns[c].queue[1].kind = "NewItem"
          /\ conns[c].queue[1].body.item_id = 1
          /\ conns[c].queue[2].kind = "NewItem"
          /\ conns[c].queue[2].body.item_id = 2
          /\ conns[c].queue[2].body.content_preview = TEXT_HELLO

\* the kinds of FrontendMessage
RequestKinds == {"GetHistory", "SetClipboardById", "ClearHistory"}

\* the kinds of reply handle_client's match gives to a request of this kind
ReplyKinds(kind) ==
    IF kind = "GetHistory" THEN {"History"}
    ELSE IF kind = "SetClipboardById" THEN {"ClipboardSet", "Error"}
    ELSE {"HistoryCleared"}

\* a request is read only by a reader that owes no reply, and its reply is
\* of the matching kind and held by the reader until it is sent
RequestThenReply ==
    ran' \in RequestKinds
       => /\ conns[last'.conn].reader = "reading"
          /\ conns[last'.conn].response = None
          /\ conns'[last'.conn].reader = "replying"
          /\ conns'[last'.conn].response = Some(last'.ret)
          /\ last'.ret.kind \in ReplyKinds(ran')
          /\ conns'[last'.conn].queue = conns[last'.conn].queue

\* C18: on each connection every well-formed request produces exactly one
\* reply of the matching kind, put at the end of that connection's channel
\* before the next request line is read, so that the replies of a
\* connection are in the order of its requests.
C18_EveryRequestAnswered ==
    [][/\ RequestThenReply
       /\ ran' = "Reply"
          => /\ conns'[last'.conn].queue =
                   Append(conns[last'.conn].queue, Unwrap(conns[last'.conn].response))
             /\ conns'[last'.conn].reader = "reading"
             /\ conns'[last'.conn].response = None
      ]_vars

\* C18 as the code has it: the reply is put at the end of the connection's
\* channel if the channel's receiver is alive; once the writer task has
\* ended (a write to the socket failed) the reply is dropped and the reader
\* goes on to the next line.
C18_AnsweredWhileWriterLives ==
    [][/\ RequestThenReply
       /\ ran' = "Reply"
          => /\ conns'[last'.conn].queue =
                   IF conns[last'.conn].rx_alive
                   THEN Append(conns[last'.conn].queue, Unwrap(conns[last'.conn].response))
                   ELSE conns[last'.conn].queue
             /\ conns'[last'.conn].reader = "reading"
             /\ conns'[last'.conn].response = None
             /\ \A c \in DOMAIN conns \ {last'.conn} : conns'[c] = conns[c]
      ]_vars

\* a connection asked for the history and then for item 1: History and
\* ClipboardSet wait on its channel in that order
C18_TwoRepliesInOrder ==
    /\ ran = "Reply"
    /\ conns[last.conn].lines = 2
    /\ Len(conns[last.conn].queue) = 2
    /\ conns[last.conn].queue[1].kind = "History"
    /\ Len(conns[last.conn].queue[1].body) = 1
    /\ conns[last.conn].queue[2] = MsgClipboardSet

\* C19: a malformed request line ends the read loop of its own connection
\* only: that connection processes no later request, the shared state and
\* the other connections are as they were before the line, and the other
\* connections' requests are still processed and answered.
C19_MalformedEndsOneReader ==
    [][/\ ran' = "Malformed"
          => /\ conns' = [conns EXCEPT ![last'.conn].reader = "ended"]
             /\ backend_state' = backend_state
             /\ push_senders' = push_senders
             /\ objects' = objects
             /\ issued' = issued
             /\ monitor_pc' = monitor_pc
       /\ \A c \in DOMAIN conns :
             conns[c].reader = "ended"
                => /\ conns'[c].reader = "ended"
                   /\ conns'[c].lines = conns[c].lines
                   /\ conns'[c].response = conns[c].response
                   /\ ran' \in RequestKinds \cup {"Reply", "Malformed", "Eof"} => last'.conn # c
       /\ \A c \in DOMAIN conns :
             (conns[c].reader = "replying" /\ conns'[c].reader = "replying")
                => conns'[c].response = conns[c].response
      ]_vars

\* connection 1 read one request and then a malformed line, its socket
\* still open; connection 2's request for item 1 is answered in this step
\* and its ClipboardSet is on its channel
C19_OtherStillAnswered ==
    /\ ran = "Reply"
    /\ last.conn = 2
    /\ conns[1].reader = "ended"
    /\ conns[1].peer_open
    /\ conns[1].lines = 1
    /\ conns[2].lines = 1
    /\ conns[2].reader = "reading"
    /\ conns[2].queue = <<MsgClipboardSet>>

\* C20: ClearHistory empties the history, so that a GetHistory that follows
\* with no insert in between returns an empty sequence; its HistoryCleared
\* goes to the requesting connection only and no other connection's channel
\* receives a message.
C20_ClearHistoryRepliesToOne ==
    [][/\ ran' = "ClearHistory"
          => /\ backend_state' = [backend_state EXCEPT !.history = <<>>]
             /\ last'.ret = MsgHistoryCleared
             /\ conns'[last'.conn].response = Some(MsgHistoryCleared)
             /\ \A c \in DOMAIN conns : conns'[c].queue = conns[c].queue
             /\ push_senders' = push_senders
             /\ objects' = objects
       /\ (ran' = "Reply" /\ conns[last'.conn].response = Some(MsgHistoryCleared))
          => /\ \A c \in DOMAIN conns \ {last'.conn} : conns'[c] = conns[c]
             /\ conns'[last'.conn].queue =
                   IF conns[last'.conn].rx_alive
                   THEN Append(conns[last'.conn].queue, MsgHistoryCleared)
                   ELSE conns[last'.conn].queue
       /\ (backend_state.history = <<>> /\ issued' = issued)
          => backend_state'.history = <<>>
       /\ (ran' = "GetHistory" /\ backend_state.history = <<>>)
          => last'.ret = MsgHistory(<<>>)
      ]_vars

\* connection 1 cleared the history of one item and received
\* HistoryCleared; connection 2 then asked for the history and got an
\* empty one, with nothing else on its channel
C20_EmptyAfterClear ==
    /\ ran = "Reply"
    /\ last.conn = 2
    /\ issued = <<1>>
    /\ backend_state.history = <<>>
    /\ backend_state.id_for_next_entry = 2
    /\ conns[1].lines = 1
    /\ conns[1].queue = <<MsgHistoryCleared>>
    /\ conns[2].lines = 1
    /\ conns[2].queue = <<MsgHistory(<<>>)>>

\* ------------------------------------------------------ concurrency
\* a History message holds at most 100 previews in strictly decreasing id
\* order
WellFormedHistory(message) ==
    message.kind = "History"
       => /\ Len(message.body) <= HistoryCap
          /\ \A i, j \in 1..Len(message.body) :
                i < j => message.body[i].item_id > message.body[j].item_id

\* C21: every History reply, also when GetHistory requests of several
\* connections run beside inserts and clears, is the complete history of one
\* instant at which no handler is at work: one preview per item, each of an
\* item whose insert is complete, at most 100 of them, in strictly
\* decreasing id order; the reply reaches the channel as it was computed.
C21_ConsistentSnapshot ==
    [][/\ ran' = "GetHistory"
          => /\ lock = 0
             /\ monitor_pc \notin {"selection", "stalled"}
             /\ last'.ret.kind = "History"
             /\ Len(last'.ret.body) = Len(backend_state.history)
             /\ \A i \in 1..Len(backend_state.history) :
                   /\ last'.ret.body[i] =
                         [ item_id |-> backend_state.history[i].item_id,
                           content_preview |-> backend_state.history[i].content_preview,
                           content_type |-> backend_state.history[i].content_type ]
                   /\ backend_state.history[i].item_id \in RangeOf(issued)
                   /\ backend_state.history[i].item_id < backend_state.id_for_next_entry
             /\ WellFormedHistory(last'.ret)
             /\ conns'[last'.conn].response = Some(last'.ret)
             /\ backend_state' = backend_state
       /\ \A c \in DOMAIN conns :
             /\ IsSome(conns[c].response) => WellFormedHistory(Unwrap(conns[c].response))
             /\ \A k \in 1..Len(conns[c].queue) : WellFormedHistory(conns[c].queue[k])
             /\ (ran' = "Reply" /\ last'.conn = c /\ conns[c].rx_alive)
                   => conns'[c].queue = Append(conns[c].queue, Unwrap(conns[c].response))
      ]_vars

\* both connections asked for the history; connection 1 was served before
\* the dispatch thread read offer 1 into item 2 and connection 2 after it:
\* connection 1 holds the history of one item, connection 2 that of two
C21_SnapshotsAroundInsert ==
    /\ ran = "GetHistory"
    /\ last.conn = 2
    /\ Len(last.ret.body) = 2
    /\ last.ret.body[1].item_id = 2
    /\ last.ret.body[2].item_id = 1
    /\ conns[1].lines = 1
    /\ conns[1].response = Some(MsgHistory(<<last.ret.body[2]>>))

\* connection c has sent a GetHistory line that waits for the mutex
AwaitsHistory(c) ==
    /\ c \in DOMAIN conns
    /\ conns[c].reader = "locking"
    /\ conns[c].request = Some(ReqGetHistory)

\* connection c's reader holds a History reply or has sent one
HasHistory(c) ==
    /\ c \in DOMAIN conns
    /\ \/ IsSome(conns[c].response) /\ Unwrap(conns[c].response).kind = "History"
       \/ \E k \in 1..Len(conns[c].queue) : conns[c].queue[k].kind = "History"

\* C22: a GetHistory request is eventually answered with a History reply,
\* also while the dispatch thread is stalled in the read of a pipe whose
\* owner never closes its write end.
C22_GetHistoryNeverBlocked ==
    \A c \in 1..MaxConns : AwaitsHistory(c) ~> HasHistory(c)

\* the dispatch thread is stalled in read_to_end with the mutex held while
\* connection 1's GetHistory waits for the mutex
C22_WaitsBehindStalledRead ==
    /\ monitor_pc = "stalled"
    /\ lock = DispatchThread
    /\ AwaitsHistory(1)
    /\ ~HasHistory(1)

\* ----------------------------------------------------------- startup
\* C23: A failed bind of the seat or of the data-control manager ends the
\* process before any compositor event is dispatched: the dispatch loop
\* runs only with the seat, the manager and the device bound, a compositor
\* event is handled only inside that loop, the process that exits has seen
\* no offer and created no source, and after the exit nothing runs.
C23_FailFast ==
    [][/\ monitor_pc' = "loop" =>
             /\ backend_state'.seat
             /\ backend_state'.data_control_manager
             /\ backend_state'.data_control_device
       /\ ran' \in CompositorEvents =>
             /\ monitor_pc = "loop"
             /\ backend_state.seat
             /\ backend_state.data_control_manager
             /\ backend_state.data_control_device
       /\ monitor_pc' = "exited" =>
             /\ ran' = "Exit"
             /\ monitor_pc \in {"bind_seat", "bind_manager"}
             /\ ~backend_state'.data_control_manager
             /\ ~backend_state'.data_control_device
             /\ objects'.offers = <<>>
             /\ objects'.sources = <<>>
             /\ backend_state'.mime_type_offers = <<>>
             /\ IsNone(backend_state'.current_data_offer)
       /\ monitor_pc # "exited"
      ]_vars

\* C23 witness: the seat was bound, the manager was not, the process exited
C23_ExitedWithoutManager ==
    /\ ran = "Exit"
    /\ monitor_pc = "exited"
    /\ backend_state.seat
    /\ ~backend_state.data_control_manager
    /\ ~backend_state.data_control_device
    /\ objects.offers = <<>>

\* ------------------------------------------------------ the offer table
\* C24: When the handler of a Selection event naming an announced offer
\* returns, mime_type_offers holds no entry, whether the handler read the
\* offer or discarded it under suppress_next_selection_read.
C24_TableEmptyAfterSelection ==
    [][(/\ ran' = "Selection"
        /\ IsSome(last'.arg)
        /\ IsSome(backend_state.mime_type_offers[Unwrap(last'.arg)]))
          => \A o \in DOMAIN backend_state'.mime_type_offers :
                IsNone(backend_state'.mime_type_offers[o])
      ]_vars

\* the Selection handler discarded offer 1 under suppression and destroyed
\* it; the entry of offer 1, with its one MIME type, is still in the table
C24_EntryLeftBySuppression ==
    /\ ran = "Selection"
    /\ last.arg = Some(1)
    /\ last.wire = <<Req("offer.destroy", 1, <<>>)>>
    /\ backend_state.suppress_next_selection_read
    /\ backend_state.mime_type_offers[1] = Some(<<MIME_TEXT_UTF8>>)
    /\ objects.offers[1].destroyed = 1

\* ---------------------------------------------------------- suppression
\* C25: While suppress_next_selection_read is true no Selection event,
\* whichever offer it names, makes the handler ask for a payload or insert
\* an item; the flag goes from true to false only in the handler of a
\* Cancelled event for the source that is current_source_object, so only
\* after that event is a selection read again.
C25_SuppressedUntilCancelled ==
    [][/\ (backend_state.suppress_next_selection_read /\ ran' = "Selection")
             => /\ \A i \in 1..Len(last'.wire) : last'.wire[i].req # "offer.receive"
                /\ backend_state'.history = backend_state.history
                /\ backend_state'.id_for_next_entry = backend_state.id_for_next_entry
                /\ issued' = issued
                /\ conns' = conns
                /\ backend_state'.suppress_next_selection_read
       /\ (backend_state.suppress_next_selection_read
             /\ ~backend_state'.suppress_next_selection_read)
             => /\ ran' = "Cancelled"
                /\ backend_state.current_source_object = Some(last'.arg[1])
       /\ (ran' = "Selection"
             /\ \E i \in 1..Len(last'.wire) : last'.wire[i].req = "offer.receive")
             => ~backend_state.suppress_next_selection_read
      ]_vars

\* another client's offer, named by a Selection event while the daemon held
\* source 2 and the flag was set, was destroyed unread: the Cancelled event
\* dispatched before it was for source 1, which the daemon had replaced
C25_ExternalOfferDiscarded ==
    /\ ran = "Selection"
    /\ IsSome(last.arg)
    /\ objects.offers[Unwrap(last.arg)].origin = 0
    /\ last.wire = <<Req("offer.destroy", Unwrap(last.arg), <<>>)>>
    /\ backend_state.current_source_object = Some(2)
    /\ objects.sources[1].cancelled
    /\ backend_state.suppress_next_selection_read
    /\ inserts = 1

\* ------------------------------------------------------------ take-over
\* another client has taken the selection from the daemon and the daemon has
\* not heard of it yet: the compositor's selection is not the daemon's, the
\* Cancelled event for current_source_object is on the connection and the
\* Selection event naming the other client's offer o is the first Selection
\* event after it (o took the selection from the daemon, not from a third
\* client)
TakeoverPending(o) ==
    /\ objects.selection = 0
    /\ o \in DOMAIN objects.offers
    /\ objects.offers[o].origin = 0
    /\ IsSome(backend_state.current_source_object)
    /\ \E i, j \in 1..Len(objects.pending) :
          /\ i < j
          /\ objects.pending[i] = Ev("cancelled", Unwrap(backend_state.current_source_object), <<>>)
          /\ objects.pending[j] = Ev("selection", o, <<>>)
          /\ \A k \in (i + 1)..(j - 1) : objects.pending[k].ev # "selection"

\* a client's SetClipboardById has just published an item
PublishIntervened ==
    /\ ran = "set_clipboard_by_id"
    /\ last.ret = Ok

\* the Selection handler for offer o has just returned: the newest item of
\* the history is the content of o and, unless the daemon only monitors,
\* the daemon's source for that item is the compositor's selection
TakenOver(o) ==
    /\ ran = "Selection"
    /\ last.arg = Some(o)
    /\ backend_state.history # <<>>
    /\ backend_state.history[1].item_id = backend_state.id_for_next_entry - 1
    /\ backend_state.history[1].mime_data # <<>>
    /\ \A i \in 1..Len(backend_state.history[1].mime_data) :
          backend_state.history[1].mime_data[i][2] = OfferBytes(o)
    /\ ~backend_state.monitor_only =>
          /\ IsSome(backend_state.current_source_object)
          /\ backend_state.current_source_entry_id = Some(backend_state.history[1].item_id)
          /\ objects.selection = Unwrap(backend_state.current_source_object)
          /\ \E i \in 1..Len(last.wire) : last.wire[i].req = "set_selection"

\* the Selection handler for offer o has just returned and none of its
\* transfers had delivered a byte
NothingTransferred(o) ==
    /\ ran = "Selection"
    /\ last.arg = Some(o)
    /\ \A i \in DOMAIN last.fd : ~(last.fd[i].kind = "ok" /\ last.fd[i].buf # <<>>)

\* C26: once another client has taken the selection from the daemon and no
\* SetClipboardById intervenes, the daemon eventually inserts the new
\* content into the history and, when monitor_only is false, publishes it
\* under its own source.
C26_TakeoverCompletes ==
    \A o \in 1..(MaxSources + MaxCopies) :
        TakeoverPending(o) ~> (TakenOver(o) \/ PublishIntervened)

\* C26 as amended: the same, provided every transfer of the offer ends and
\* at least one of them delivers a byte.
C26_TakeoverCompletesWithData ==
    \A o \in 1..(MaxSources + MaxCopies) :
        TakeoverPending(o) ~>
            (TakenOver(o) \/ PublishIntervened \/ NothingTransferred(o) \/ monitor_pc = "stalled")

\* the daemon had published item 1; another client's copy was read into
\* item 2 and published again as the daemon's second source
C26_RepublishedAfterTakeover ==
    /\ TakenOver(2)
    /\ ~backend_state.monitor_only
    /\ objects.sources[1].cancelled
    /\ backend_state.current_source_object = Some(2)
    /\ backend_state.current_source_entry_id = Some(2)

\* ------------------------------------------------------- offer reads
\* the Selection handler about to run for the offer id reads it: the offer
\* is announced, no read is suppressed and the offer is not the current one
ReadsOffer(bs, id) ==
    /\ IsSome(id)
    /\ IsSome(bs.mime_type_offers[Unwrap(id)])
    /\ ~bs.suppress_next_selection_read
    /\ bs.current_data_offer # id

\* the transfer of the i-th MIME type delivered at least one byte
Delivers(outcome, i) == outcome[i].kind = "ok" /\ outcome[i].buf # <<>>

\* the positions, in announcement order, of the MIME types that delivered,
\* each MIME type at the first position at which it delivered
Kept(mime_types, outcome) ==
    SelectSeq([i \in 1..Len(mime_types) |-> i],
              LAMBDA i : /\ Delivers(outcome, i)
                         /\ \A j \in 1..(i - 1) :
                               ~(Delivers(outcome, j) /\ mime_types[j] = mime_types[i]))

\* the bytes stored for the MIME type at position i: those of its last
\* transfer that delivered
StoredFor(mime_types, outcome, i) ==
    outcome[CHOOSE j \in i..Len(mime_types) :
               /\ Delivers(outcome, j)
               /\ mime_types[j] = mime_types[i]
               /\ \A k \in (j + 1)..Len(mime_types) :
                     ~(Delivers(outcome, k) /\ mime_types[k] = mime_types[i])].buf

\* the MIME types the requests in wire asked offer o for, in order
Received(wire, o) ==
    [i \in 1..Len(SelectSeq(wire, LAMBDA r : r.req = "offer.receive" /\ r.obj = o)) |->
        SelectSeq(wire, LAMBDA r : r.req = "offer.receive" /\ r.obj = o)[i].arg]

\* C27: the item an offer read creates holds exactly the announced MIME
\* types whose transfer delivered at least one byte, in announcement order;
\* a MIME type whose pipe cannot be opened, whose read fails or that
\* delivers nothing is skipped and the later types are still asked for; if
\* no type delivers, nothing is inserted, no NewItem is sent and nothing is
\* published.
C27_ItemHoldsDeliveredTypes ==
    [][(ran' = "Selection" /\ ReadsOffer(backend_state, last'.arg))
       => LET o == Unwrap(last'.arg)
              mime_types == Unwrap(backend_state.mime_type_offers[o])
              outcome == last'.fd
              kept == Kept(mime_types, outcome)
              opened == SelectSeq([i \in 1..Len(mime_types) |-> i],
                                  LAMBDA i : outcome[i].kind # "pipe_err")
          IN /\ Received(last'.wire, o) = [k \in 1..Len(opened) |-> mime_types[opened[k]]]
             /\ IF kept = <<>>
                THEN /\ backend_state'.history = backend_state.history
                     /\ backend_state'.id_for_next_entry = backend_state.id_for_next_entry
                     /\ issued' = issued
                     /\ conns' = conns
                     /\ push_senders' = push_senders
                     /\ objects'.sources = objects.sources
                     /\ OwnershipRecord(backend_state') =
                           [OwnershipRecord(backend_state) EXCEPT !.current_data_offer = Some(o)]
                     /\ \A i \in 1..Len(last'.wire) :
                           last'.wire[i].req \in {"offer.receive", "flush", "offer.destroy"}
                ELSE /\ issued' = Append(issued, backend_state.id_for_next_entry)
                     /\ Tail(backend_state'.history) = backend_state.history
                     /\ backend_state'.history[1].item_id = backend_state.id_for_next_entry
                     /\ backend_state'.history[1].mime_data =
                           [k \in 1..Len(kept) |->
                               <<mime_types[kept[k]], StoredFor(mime_types, outcome, kept[k])>>]
      ]_vars

\* offer 1 was announced with image/png and text/plain;charset=utf-8; the
\* pipe for the image could not be opened, the text was delivered, and the
\* item holds the text alone
C27_FailedTypeSkipped ==
    /\ ran = "Selection"
    /\ last.arg = Some(1)
    /\ last.fd = <<PipeErr, ReadOk(OfferBytes(1))>>
    /\ Received(last.wire, 1) = <<MIME_TEXT_UTF8>>
    /\ backend_state.history # <<>>
    /\ backend_state.history[1].mime_data = << <<MIME_TEXT_UTF8, OfferBytes(1)>> >>

\* C28: a MIME type that begins with "video" is never appended to the list
\* of an offer, so no payload is asked for under it and no item read from an
\* offer carries it; every other MIME type announced for an announced offer
\* is appended to the end of that offer's list.
C28_VideoNeverListed ==
    [][/\ ran' = "Offer" =>
             LET o == last'.arg[1]
                 m == last'.arg[2]
                 listed == backend_state.mime_type_offers[o]
             IN /\ backend_state' =
                      [backend_state EXCEPT !.mime_type_offers = backend_state'.mime_type_offers]
                /\ \A p \in DOMAIN backend_state.mime_type_offers :
                      p # o => backend_state'.mime_type_offers[p] = backend_state.mime_type_offers[p]
                /\ backend_state'.mime_type_offers[o] =
                      IF IsSome(listed) /\ ~StartsWith(m, STR_VIDEO)
                      THEN Some(Unwrap(listed) \o <<m>>)
                      ELSE listed
                /\ last'.wire = <<>>
       /\ \A o \in DOMAIN backend_state'.mime_type_offers :
             IsSome(backend_state'.mime_type_offers[o]) =>
                \A i \in 1..Len(Unwrap(backend_state'.mime_type_offers[o])) :
                   ~StartsWith(Unwrap(backend_state'.mime_type_offers[o])[i], STR_VIDEO)
       /\ ran' = "Selection" =>
             /\ \A i \in 1..Len(last'.wire) :
                   last'.wire[i].req = "offer.receive" => ~StartsWith(last'.wire[i].arg, STR_VIDEO)
             /\ Len(backend_state'.history) > Len(backend_state.history) =>
                   \A i \in 1..Len(backend_state'.history[1].mime_data) :
                      ~StartsWith(backend_state'.history[1].mime_data[i][1], STR_VIDEO)
      ]_vars

\* offer 1 was announced with image/png and then with video/mp4: its list
\* holds image/png alone
C28_VideoAfterImage ==
    /\ ran = "Offer"
    /\ last.arg = <<1, MIME_VIDEO_MP4>>
    /\ backend_state.mime_type_offers[1] = Some(<<MIME_IMAGE_PNG>>)

\* --------------------------------------------------- critical sections
\* the dispatch thread is inside a handler, between its entry and its return
InHandler == monitor_pc \in {"selection", "stalled", "destroy"}

\* C29: every compositor event handler and every IPC request's effect is
\* one critical section: no IPC request takes effect while the dispatch
\* thread is between the entry and the return of a handler, the Cancelled
\* handler's clearing of the record and its destroy of the source included.
C29_HandlersAreCriticalSections ==
    [][ran' \in RequestKinds => ~InHandler]_vars

\* C29 as amended: every state change of the history, the offer table and
\* the ownership record is made in one critical section.  An IPC request
\* takes effect in one step that finds the mutex free and leaves it free,
\* and never while the Selection handler holds it; the shared state changes
\* under the dispatch thread's guard only when the Selection handler
\* returns; the Cancelled handler clears the record in one such section,
\* and its destroy of the source, made after the guard is dropped, changes
\* nothing of the shared state.
C29_StateChangesAreCriticalSections ==
    [][/\ ran' \in RequestKinds =>
             /\ lock = 0
             /\ lock' = 0
             /\ monitor_pc \in {"loop", "destroy"}
       /\ lock = DispatchThread =>
             /\ monitor_pc \in {"selection", "stalled"}
             /\ backend_state' # backend_state => (ran' = "Selection" /\ lock' = 0)
             /\ \A c \in DOMAIN conns : conns'[c].response \in {conns[c].response, None}
       /\ backend_state' # backend_state => lock' = 0
       /\ ran' = "Cancelled" =>
             /\ lock = 0
             /\ monitor_pc' = "destroy"
             /\ backend_state' = ForgetIfCurrent(World, last'.arg[1]).bs
       /\ ran' = "destroy" =>
             /\ monitor_pc = "destroy"
             /\ backend_state' = backend_state
             /\ objects'.sources[last'.arg[1]].destroyed = objects.sources[last'.arg[1]].destroyed + 1
      ]_vars

\* a client's publish took effect between the Cancelled handler's
\* drop(state) and its destroy of the cancelled source
C29_PublishBeforeDestroy ==
    /\ ran = "SetClipboardById"
    /\ last.ret = MsgClipboardSet
    /\ monitor_pc = "destroy"
    /\ lock = 0
    /\ IsSome(backend_state.current_source_object)
    /\ Head(objects.pending).ev = "cancelled"
    /\ Head(objects.pending).obj # Unwrap(backend_state.current_source_object)

\* C30: no context asks for the mutex while it holds it, and no reader task
\* holds it at an await.  The mutex is only ever taken when it is free; the
\* dispatch thread holds it only inside the Selection handler, whose insert
\* and publish are applied to the state it already holds, in the step that
\* drops the guard; a reader task never holds it from one step to the next:
\* not while it awaits a line, not while it stands at state.lock(), not
\* when it sends its response.
C30_NoReentryNoAwaitUnderLock ==
    [][/\ (lock' # lock /\ lock' # 0) => lock = 0
       /\ lock' \in {0, DispatchThread}
       /\ \A c \in DOMAIN conns' : lock' # c
       /\ lock' = DispatchThread => monitor_pc' \in {"selection", "stalled"}
       /\ (ran' = "Selection" /\ lock = DispatchThread) =>
             /\ lock' = 0
             /\ monitor_pc' = "loop"
       /\ ran' \in RequestKinds =>
             /\ lock = 0
             /\ conns[last'.conn].reader = "locking"
             /\ conns'[last'.conn].reader = "replying"
             /\ lock' = 0
      ]_vars

\* the Selection handler has inserted item 2 and published it in the one
\* section it held, and has dropped the guard; a reader task that stood at
\* state.lock() meanwhile can now take it
C30_ReadPathDoneReaderWaiting ==
    /\ ran = "Selection"
    /\ lock = 0
    /\ monitor_pc = "loop"
    /\ backend_state.history[1].item_id = 2
    /\ backend_state.current_source_entry_id = Some(2)
    /\ \E i \in 1..Len(last.wire) : last.wire[i].req = "set_selection"
    /\ \E c \in DOMAIN conns : conns[c].reader = "locking"

\* ------------------------------------------------------------- sources
\* C31: every source the daemon created is destroyed exactly once: a source
\* that is no longer current_source_object has been destroyed, no source is
\* ever destroyed twice, and a publish destroys the old source before it
\* creates the new one.
C31_SourcesDestroyedOnce ==
    [][/\ \A s \in DOMAIN objects'.sources :
             /\ objects'.sources[s].destroyed <= 1
             /\ backend_state'.current_source_object # Some(s)
                   => objects'.sources[s].destroyed = 1
       /\ \A i, j \in 1..Len(last'.wire) :
             (last'.wire[i].req = "create_data_source" /\ last'.wire[j].req = "source.destroy")
                => j < i
      ]_vars

\* source 1 was destroyed when the publish of source 2 replaced it and
\* again by the handler of its Cancelled event
C31_DestroyedTwice ==
    /\ ran = "Cancelled"
    /\ last.arg = <<1>>
    /\ last.wire = <<Req("source.destroy", 1, <<>>)>>
    /\ backend_state.current_source_object = Some(2)
    /\ objects.sources[1].destroyed = 2
    /\ objects.sources[2].destroyed = 0

(***************************************************************************)
(* Preview and type chosen by add_clipboard_item                           *)
(* (backend_state.rs 77-108, data_structures.rs 77-91).                    *)
(***************************************************************************)

\* The prefix "image/" shared by every image MIME type.
STR_IMAGE_SLASH == <<105, 109, 97, 103, 101, 47>>

\* Payloads add_clipboard_item may be handed by its callers: image/png alone
\* and after a text entry, image/jpeg alone and before a text entry, a URL,
\* text that is not UTF-8, text with a two-byte character, text/html before
\* and without text/plain;charset=utf-8.
PreviewPayloads ==
    LET jpeg == STR_IMAGE_SLASH \o <<106, 112, 101, 103>>
        html == <<116, 101, 120, 116, 47, 104, 116, 109, 108>>
    IN { << <<MIME_IMAGE_PNG, PNG_4_BYTES>> >>,
         << <<MIME_TEXT_UTF8, TEXT_HELLO>>, <<MIME_IMAGE_PNG, PNG_4_BYTES>> >>,
         << <<jpeg, PNG_4_BYTES>> >>,
         << <<jpeg, PNG_4_BYTES>>, <<MIME_TEXT_UTF8, TEXT_HELLO>> >>,
         SamplePayload,
         << <<MIME_TEXT_UTF8, <<104, 116, 116, 112, 115, 58, 47, 47, 97>> >> >>,
         << <<MIME_TEXT_UTF8, <<255>> >> >>,
         << <<MIME_TEXT_UTF8, <<195, 169, 33>> >> >>,
         << <<html, TEXT_HELLO>>, <<MIME_TEXT_UTF8, TEXT_HELLO>> >>,
         << <<html, TEXT_HELLO>> >> }

\* add_clipboard_item applied to each payload, as the monitor and
\* run_backend apply it.
NextPreview == \E mc \in PreviewPayloads : CallAddClipboardItem(mc)

SpecPreview == Init /\ [][NextPreview]_vars

\* The entries of a payload whose MIME type is an image type.
ImageEntries(mime_content) ==
    {i \in 1..Len(mime_content) : StartsWith(mime_content[i][1], STR_IMAGE_SLASH)}

\* The item the last add_clipboard_item call stored.
StoredItem == backend_state.history[1]

\* C32: add_clipboard_item chooses preview and type by priority: a payload
\* with an image MIME type (any image type, at any position) is typed Image
\* with a placeholder naming the byte length of the image; else a payload
\* with text/plain;charset=utf-8 holding valid UTF-8 gets the first 200
\* characters as preview and type_from_preview(preview) as type; else the
\* preview is the placeholder of the first entry.
C32_PreviewByPriority ==
    (ran = "add_clipboard_item" /\ IsSome(last.ret)) =>
        LET mc  == last.arg
            txt == IndexMapGet(mc, MIME_TEXT_UTF8)
            it  == StoredItem
        IN IF ImageEntries(mc) # {}
           THEN /\ it.content_type = "Image"
                /\ \E i \in ImageEntries(mc) :
                      it.content_preview = Placeholder(mc[i][1], Len(mc[i][2]))
           ELSE IF IsSome(txt)
           THEN IsSome(FromUtf8(Unwrap(txt))) =>
                   /\ it.content_preview = TakeChars(Unwrap(FromUtf8(Unwrap(txt))), PreviewChars)
                   /\ it.content_type = type_from_preview(it.content_preview)
           ELSE it.content_preview = Placeholder(mc[1][1], Len(mc[1][2]))

\* An image/jpeg payload was stored and the item is not typed Image.
C32_JpegNotImage ==
    /\ ran = "add_clipboard_item" /\ IsSome(last.ret)
    /\ ImageEntries(last.arg) # {}
    /\ IndexMapGet(last.arg, MIME_IMAGE_PNG) = None
    /\ StoredItem.content_type # "Image"

(***************************************************************************)
(* Ownership fields of BackendState while the lock is free                 *)
(* (backend_state.rs 149-158, wayland_clipboard.rs 98-116, 240-251).       *)
(***************************************************************************)

\* C33: in every state in which the shared-state lock is free,
\* suppress_next_selection_read is true exactly when current_source_object
\* is Some, and current_source_object being Some implies
\* current_source_entry_id is Some; after any sequence of publishes,
\* Selection events, Cancelled events and teardown.
C33_SuppressIffOwner ==
    lock = 0 =>
        /\ backend_state.suppress_next_selection_read <=> IsSome(backend_state.current_source_object)
        /\ IsSome(backend_state.current_source_object) => IsSome(backend_state.current_source_entry_id)

\* The monitor was dropped while the daemon owned the selection: the source
\* is gone and the suppress flag is still set.
C33_SuppressAfterTeardown ==
    /\ lock = 0
    /\ ran = "Drop" /\ monitor_pc = "stopped"
    /\ backend_state.suppress_next_selection_read
    /\ backend_state.current_source_object = None
    /\ IsSome(backend_state.current_source_entry_id)

(***************************************************************************)
(* Order of NewItem pushes and History replies on one outbound channel     *)
(* (ipc_server.rs 36-44, 108-141; backend_state.rs 110-120).               *)
(***************************************************************************)

\* The ids a History reply lists.
Listed(message) == {message.body[k].item_id : k \in 1..Len(message.body)}

\* The ids of the items the history holds now: ids are never reused, so an
\* item held now was not removed by a clear or a truncation at any earlier
\* time.
Held == {backend_state.history[k].item_id : k \in 1..Len(backend_state.history)}

\* NewItem for an item still held stands in front of a History reply on
\* connection c's channel, and the reply does not list the item.
StaleHistoryBehindNewItem(c) ==
    \E i, j \in 1..Len(conns[c].queue) :
        /\ i < j
        /\ conns[c].queue[i].kind = "NewItem"
        /\ conns[c].queue[j].kind = "History"
        /\ conns[c].queue[i].body.item_id \in Held
        /\ conns[c].queue[i].body.item_id \notin Listed(conns[c].queue[j])

\* C34: on every connection's outbound channel, a History reply enqueued
\* behind a NewItem for item x lists x, unless x was removed by a clear or
\* a truncation before the snapshot was taken.
C34_HistoryListsAnnounced ==
    \A c \in 1..Len(conns) : ~StaleHistoryBehindNewItem(c)

\* A GetHistory reply computed before an insert was enqueued after the
\* insert's NewItem.
C34_SnapshotOvertaken ==
    /\ ran = "Reply"
    /\ StaleHistoryBehindNewItem(last.conn)

(***************************************************************************)
(* The two mutexes: the shared state (Arc<Mutex<BackendState>>) and the    *)
(* registry of push senders (PUSH_SENDERS), ipc_server.rs 30-44, 100-115;  *)
(* backend_state.rs 77-121.  The state mutex is the variable lock; the     *)
(* registry mutex is held by the thread that stands inside                 *)
(* register_push_sender or inside send.                                    *)
(***************************************************************************)

\* The holder of the registry mutex: the inserting thread inside send, a
\* reader task inside register_push_sender, or nobody (0).
registry_lock ==
    IF monitor_pc = "broadcast" THEN DispatchThread
    ELSE IF \E c \in 1..Len(conns) : conns[c].reader = "registering"
    THEN CHOOSE c \in 1..Len(conns) : conns[c].reader = "registering"
    ELSE 0

\* handle_client creates its channel and enters register_push_sender:
\* push_senders().lock().
RegisterLocks ==
    /\ Alive
    /\ Len(conns) < MaxConns
    /\ registry_lock = 0
    /\ conns' = Append(conns, [reader |-> "registering", lines |-> 0, request |-> None,
                               response |-> None, queue |-> <<>>, rx_alive |-> TRUE,
                               peer_open |-> TRUE])
    /\ Ran("register_push_sender", Len(conns) + 1, <<>>, <<>>, <<>>, None)
    /\ UNCHANGED <<backend_state, push_senders, objects, monitor_pc, inserts, issued>>

\* A variant whose push waits for the state mutex while it holds the
\* registry mutex.
RegisterPushes_under_state_lock(c) ==
    /\ conns[c].reader = "registering"
    /\ lock = 0
    /\ push_senders' = Append(push_senders, c)
    /\ conns' = [conns EXCEPT ![c].reader = "reading"]
    /\ Ran("Accept", c, <<>>, <<>>, <<>>, None)
    /\ UNCHANGED <<backend_state, objects, monitor_pc, inserts, issued>>

\* register_push_sender pushes the sender and drops the registry guard.
RegisterPushes(c) ==
    /\ conns[c].reader = "registering"
    /\ push_senders' = Append(push_senders, c)
    /\ conns' = [conns EXCEPT ![c].reader = "reading"]
    /\ Ran("Accept", c, <<>>, <<>>, <<>>, None)
    /\ UNCHANGED <<backend_state, objects, monitor_pc, inserts, issued>>

\* A caller of add_clipboard_item takes the state mutex (the Selection
\* handler, run_backend's sample inserts).
InsertLocks ==
    /\ monitor_pc = "loop"
    /\ lock = 0
    /\ inserts < MaxInserts
    /\ lock' = DispatchThread
    /\ monitor_pc' = "insert"
    /\ Logged("lock", 0, <<>>, <<>>, <<>>, None)
    /\ UNCHANGED <<backend_state, push_senders, conns, objects, inserts, issued>>

\* add_clipboard_item up to the broadcast: the item is put in front of the
\* history, the history truncated, the id counter advanced.
StoreItem(w, mime_content) ==
    [w EXCEPT
        !.bs.history = Truncate(<<NewItem(w.bs.id_for_next_entry, PreviewAndType(mime_content), mime_content)>> \o @,
                                HistoryCap),
        !.bs.id_for_next_entry = @ + 1]

InsertStores(mime_content) ==
    /\ monitor_pc = "insert"
    /\ lock = DispatchThread
    /\ \E w \in {StoreItem(World, mime_content)} : backend_state' = w.bs
    /\ inserts' = inserts + 1
    /\ issued' = Append(issued, backend_state.id_for_next_entry)
    /\ monitor_pc' = "send"
    /\ Ran("add_clipboard_item", 0, <<>>, Some(backend_state.id_for_next_entry), <<>>, None)
    /\ UNCHANGED <<push_senders, conns, objects>>

\* send: push_senders().lock(), inside add_clipboard_item and so inside
\* the state mutex.
SendLocks ==
    /\ monitor_pc = "send"
    /\ registry_lock = 0
    /\ monitor_pc' = "broadcast"
    /\ Ran("send", 0, <<>>, <<>>, <<>>, None)
    /\ UNCHANGED <<backend_state, push_senders, conns, objects, inserts, issued>>

\* send retains the senders that took the message and drops the registry
\* guard; add_clipboard_item returns and its caller drops the state guard.
SendReturns ==
    /\ monitor_pc = "broadcast"
    /\ \E w \in {Announce(World)} :
          /\ push_senders' = w.ps
          /\ conns' = w.cn
    /\ lock' = 0
    /\ monitor_pc' = "loop"
    /\ Logged("NewItem", 0, <<>>, <<>>, <<>>, None)
    /\ UNCHANGED <<backend_state, objects, inserts, issued>>

\* A step of a thread that holds a mutex.
HolderSteps ==
    \/ \E mc \in {<< <<MIME_IMAGE_PNG, PNG_4_BYTES>> >>} : InsertStores(mc)
    \/ SendLocks
    \/ SendReturns
    \/ \E c \in 1..Len(conns) : RegisterPushes(c)

NextRegistry ==
    \/ RegisterLocks
    \/ \E c \in 1..Len(conns) : \E message \in Requests(backend_state) : LineArrives(c, message)
    \/ \E c \in 1..Len(conns) : HandleLocked(c)
    \/ \E c \in 1..Len(conns) : IpcReply(c)
    \/ \E c \in 1..Len(conns) : Writer(c)
    \/ InsertLocks
    \/ HolderSteps

SpecRegistry == InitServing /\ [][NextRegistry]_vars

\* C35: the registry mutex is taken only inside the state mutex or without
\* it, never the state mutex while the registry mutex is held; so in no
\* interleaving of inserts, IPC requests and registrations are the holders
\* of the mutexes all blocked.
C35_LockOrderNoDeadlock ==
    /\ registry_lock = DispatchThread => lock = DispatchThread
    /\ \A c \in 1..Len(conns) : registry_lock = c => lock # c
    /\ (lock # 0 \/ registry_lock # 0) => ENABLED HolderSteps

\* The inserting thread holds the state mutex and waits for the registry
\* mutex, which a registering reader task holds.
C35_InsertWaitsForRegistration ==
    /\ lock = DispatchThread
    /\ monitor_pc = "send"
    /\ registry_lock \in 1..Len(conns)

(***************************************************************************)
(* Removal of a closed connection's channel from the registry              *)
(* (ipc_server.rs 36-44, 108-115).                                         *)
(***************************************************************************)

\* The step is a broadcast: add_clipboard_item stored an item and called
\* send.
Broadcast == ran' = "add_clipboard_item" /\ IsSome(last'.ret)

PublishedFor(s) == get_item_by_id(backend_state, objects.sources[s].entry)

\* C37: the bytes written in answer to a Send event addressed to source S
\* are bytes of the item S was published for; a Send to a source that is no
\* longer current never receives the data of another item.
C37_SendServesPublishedItem ==
    (ran = "Send" /\ IsSome(last.fd.written)) =>
        /\ backend_state.current_source_entry_id = Some(objects.sources[last.arg[1]].entry)
        /\ IsSome(PublishedFor(last.arg[1]))
        /\ last.fd.written = IndexMapGet(Unwrap(PublishedFor(last.arg[1])).mime_data, last.arg[2])

\* A Send for a replaced source, asking for a type that source offered, was
\* answered with the bytes of the item published after it.
C37_ReplacedSourceServedNewItem ==
    /\ ran = "Send" /\ IsSome(last.fd.written)
    /\ backend_state.current_source_object # Some(last.arg[1])
    /\ backend_state.current_source_entry_id # Some(objects.sources[last.arg[1]].entry)
    /\ IsSome(PublishedFor(last.arg[1]))
    /\ IsSome(IndexMapGet(Unwrap(PublishedFor(last.arg[1])).mime_data, last.arg[2]))
    /\ last.fd.written # IndexMapGet(Unwrap(PublishedFor(last.arg[1])).mime_data, last.arg[2])

====
